---- MODULE Spec2Model ----
(***************************************************************************)
(* Model of the asynchronous translation orchestration core of             *)
(* junie_translator_project (ai/translation_manager.py): TranslationCache, *)
(* RateLimiter and TranslationManager with its background batch processor. *)
(*                                                                         *)
(* asyncio runs one coroutine at a time, so each action is the code that   *)
(* runs between two suspension points of one coroutine.  Time advances in  *)
(* steps (RateTick: TickLen seconds; Tick: one whole window).  Timestamps  *)
(* of the limiter are stored as ages (now - t), capped at Window: the code *)
(* only ever compares now - t with 60.                                     *)
(***************************************************************************)
EXTENDS Integers, Sequences, FiniteSets, TLC

\* ----------------------------------------------------------------- bounds
MaxCalls == 2       \* translate_queued invocations in one behaviour
MaxStops == 1       \* stop() invocations in one behaviour
MaxCallers == 3     \* concurrent direct callers of RateLimiter.acquire
TickLen == 20       \* seconds the clock advances in one RateTick
MaxDirect == 2      \* translate / translate_batch / translate_srt_file calls
MaxCacheSize == 2   \* largest max_size of a TranslationCache used on its own
MaxEntries == 3     \* entries of a file given to a concurrent file job
MaxConcurrent == 2  \* largest max_concurrent of a concurrency-gated job
MaxLines == 2       \* content lines of the first entry given to SRTTranslator

\* ------------------------------------------------------ program constants
Window == 60                \* "now - t < 60", "60 - (now - oldest_time)"
DefaultBatchSize == 10      \* batch_size: int = 10
DefaultRequestsPerMinute == 60      \* requests_per_minute: int = 60

StoppedText == "Translation manager was stopped"
InvalidStateText == "invalid state"      \* str(asyncio.InvalidStateError)
ServiceErrorText == "service error"      \* str(e) of a failing service call

Texts == {"a"}
Pairs == { <<"es", "auto">>, <<"es", "en">> }      \* (target, source)

VARIABLES
    batch_size,             \* TranslationManager.batch_size
    batch_wait_time,        \* TranslationManager.batch_wait_time (seconds)
    requests_per_minute,    \* RateLimiter.requests_per_minute
    max_size,               \* TranslationCache.max_size
    cache,                  \* TranslationCache.cache + access_times, dict order
    rate_limiter,           \* RateLimiter.request_times and RateLimiter.lock
    batch_queue,            \* TranslationManager.batch_queue (call numbers)
    batch_event,            \* TranslationManager.batch_event
    batch_task,             \* TranslationManager.batch_task (0 is None)
    task,                   \* the _batch_processor tasks
    calls,                  \* translate_queued invocations: request and future
    stop_pc,                \* position of the stop() coroutine
    stop_task,              \* the task stop() awaits
    stop_snap,              \* futures that were pending when stop() was called
    stops,                  \* number of stop() calls made so far
    since_arrival,          \* seconds since a request reached an idle processor
    workload,               \* the translate_queued calls the callers make
    direct,                 \* translate / translate_batch / translate_srt_file
                            \* invocations: arguments, position and result
    cache_op,               \* the last get / put / clear called on the cache
                            \* by a direct user of TranslationCache
    job                     \* a concurrent file job (AITranslator, SRTTranslator):
                            \* its entries, its tasks, semaphore and result

vars == << batch_size, batch_wait_time, requests_per_minute, max_size, cache,
           rate_limiter, batch_queue, batch_event, batch_task, task, calls,
           stop_pc, stop_task, stop_snap, stops, since_arrival,
           workload, direct, cache_op, job >>

Min(a, b) == IF a <= b THEN a ELSE b
Max(a, b) == IF a >= b THEN a ELSE b
Range(s) == { s[i] : i \in 1..Len(s) }

RECURSIVE SeqMax(_)
SeqMax(s) == IF s = <<>> THEN 0 ELSE Max(Head(s), SeqMax(Tail(s)))

Older(a, d) == Min(a + d, Window)            \* an age, d seconds later

\* =========================================================== RateLimiter
\* holder: who is inside "async with self.lock" (0: nobody); entered: the
\* holder has run the body up to asyncio.sleep; waiters: FIFO of lock.acquire.
NewLimiter ==
    [ request_times |-> <<>>, holder |-> 0, entered |-> FALSE,
      sleep_left |-> 0, waiters |-> <<>> ]

\* self.request_times = [t for t in self.request_times if now - t < 60]
Prune(times) == SelectSeq(times, LAMBDA a : a < Window)

\* wait_time = 60 - (now - min(self.request_times))
NoWaitTime(times) == 0
WaitTime(times) == Window - SeqMax(times)

ReleaseToNobody(rl) ==
    [rl EXCEPT !.holder = 0, !.entered = FALSE, !.sleep_left = 0]

\* leaving "async with self.lock": the lock passes to the first waiter
Release(rl) ==
    IF rl.waiters = <<>>
    THEN [rl EXCEPT !.holder = 0, !.entered = FALSE, !.sleep_left = 0]
    ELSE [rl EXCEPT !.holder = Head(rl.waiters), !.entered = FALSE,
                    !.sleep_left = 0, !.waiters = Tail(rl.waiters)]

\* self.request_times.append(time.time()), then the lock is released
Grant(rl) == Release([rl EXCEPT !.request_times = Append(@, 0)])

\* the body of acquire() once the lock is held, up to its first suspension
LimEnter(rl, c, rpm) ==
    LET pruned == Prune(rl.request_times)
        r1 == [rl EXCEPT !.request_times = pruned, !.holder = c]
    IN  IF Len(pruned) >= rpm /\ WaitTime(pruned) > 0
        THEN [r1 EXCEPT !.entered = TRUE, !.sleep_left = WaitTime(pruned)]
        ELSE Grant(r1)

\* a call of acquire(): takes the lock if it is free, else queues for it
LimCall(rl, c, rpm) ==
    IF rl.holder = 0 THEN LimEnter(rl, c, rpm)
    ELSE [rl EXCEPT !.waiters = Append(@, c)]

\* CancelledError raised inside acquire(): the lock wait is abandoned, or the
\* "async with" block is left without appending
LimCancel(rl, c) ==
    IF rl.holder = c THEN Release(rl)
    ELSE [rl EXCEPT !.waiters = SelectSeq(@, LAMBDA w : w # c)]

InAcquire(rl, c) == rl.holder = c \/ c \in Range(rl.waiters)

LimTick(rl, d) ==
    [rl EXCEPT !.request_times = [i \in 1..Len(@) |-> Older(@[i], d)],
               !.sleep_left = Max(0, @ - d)]

\* ====================================================== TranslationCache
NoneText == "<None>"                     \* error_message = None

\* hashlib.md5(f"{text}|{source_language}|{target_language}"): the digest is
\* taken to be injective on the string it is computed from
_generate_key(text, target_language, source_language) ==
    text \o "|" \o source_language \o "|" \o target_language

\* Access times are kept as dense ranks: the code only takes their minimum.
\* Every time.time() read is later than all the times stored before it.
CacheNow(c) ==
    IF c = <<>> THEN 0 ELSE SeqMax([i \in 1..Len(c) |-> c[i].time]) + 1

Normalise(c) ==
    [i \in 1..Len(c) |->
        [c[i] EXCEPT !.time =
            Cardinality({ c[j].time : j \in 1..Len(c) } \cap (0..(c[i].time - 1)))]]

NeverFound(c, key) == 0
\* get(): if key in self.cache (the index of the entry, 0 when absent)
CacheFind(c, key) ==
    IF \E i \in 1..Len(c) : c[i].key = key
    THEN CHOOSE i \in 1..Len(c) : c[i].key = key
    ELSE 0

\* get(): on a hit, self.access_times[key] = time.time()
CacheTouch(c, i, now) == [c EXCEPT ![i].time = now]

\* _evict_lru(): min(self.access_times.items(), key=lambda x: x[1]) is the
\* first entry, in dict order, among those with the smallest time
EvictFirst(c) == IF c = <<>> THEN c ELSE Tail(c)
_evict_lru(c) ==
    IF c = <<>> THEN c
    ELSE LET oldest == CHOOSE i \in 1..Len(c) :
                          /\ \A j \in 1..Len(c) : c[i].time <= c[j].time
                          /\ \A j \in 1..(i - 1) : c[j].time > c[i].time
         IN  [j \in 1..(Len(c) - 1) |-> IF j < oldest THEN c[j] ELSE c[j + 1]]

\* put(): evict when full, then store the response and its access time
NoPut(c, response, now, cap) == c
CachePut(c, response, now, cap) ==
    LET key == _generate_key(response.source_text, response.target_language,
                             response.source_language)
        c1 == IF Len(c) >= cap THEN _evict_lru(c) ELSE c
        at == CacheFind(c1, key)
        entry == [key |-> key, value |-> response, time |-> now]
    IN  IF at = 0 THEN Append(c1, entry) ELSE [c1 EXCEPT ![at] = entry]

\* ==================================================== TranslationManager
\* a response that carries the translated text but reports no success
UnsuccessfulResponse(req, translated_text, target_lang, source_lang) ==
    [ request_id |-> _generate_key(req.text, req.target, req.source),
      translated_text |-> translated_text,
      source_text |-> req.text,
      target_language |-> target_lang,
      source_language |-> source_lang,
      success |-> FALSE,
      error_message |-> NoneText ]

\* TranslationResponse(...) built from a translated text
Response(req, translated_text, target_lang, source_lang) ==
    [ request_id |-> _generate_key(req.text, req.target, req.source),
      translated_text |-> translated_text,
      source_text |-> req.text,
      target_language |-> target_lang,
      source_language |-> source_lang,
      success |-> TRUE,
      error_message |-> NoneText ]

\* TranslationResponse.error(request, error_message)
ErrorWithoutText(req, error_message) ==
    [ request_id |-> _generate_key(req.text, req.target, req.source),
      translated_text |-> "",
      source_text |-> req.text,
      target_language |-> req.target,
      source_language |-> req.source,
      success |-> FALSE,
      error_message |-> NoneText ]
ErrorResponse(req, error_message) ==
    [ request_id |-> _generate_key(req.text, req.target, req.source),
      translated_text |-> "",
      source_text |-> req.text,
      target_language |-> req.target,
      source_language |-> req.source,
      success |-> FALSE,
      error_message |-> error_message ]

NoResult == ErrorResponse([text |-> "", target |-> "", source |-> ""], "<pending>")

\* what the service returns for the texts of one call: one translated text
\* per text, in order (MockTranslator: f"[{target_language}] {text}")
ServiceOutput(texts, target_lang) ==
    [i \in 1..Len(texts) |-> "[" \o target_lang \o "] " \o texts[i]]

NoCall == [texts |-> <<>>, target |-> ""]
\* seen: the length the queue had when the task took its batch from it
NoTask == [pc |-> "none", wake |-> FALSE, cancel |-> FALSE, dleft |-> 0,
           batch |-> <<>>, seen |-> 0, todo |-> <<>>, call |-> NoCall]

\* every stop() call can leave one more processor behind (see StopEnd)
MaxTasks == MaxStops + 1
Tasks == 1..MaxTasks
Alive(t) == task[t].pc \notin {"none", "done"}
\* the coroutine has run to a suspension point inside its "while True" loop
Running(t) == task[t].pc \notin {"none", "new", "done"}
Pending == { k \in 1..Len(calls) : calls[k].fut = "pending" }

\* future.set_result(result); nres counts the calls of set_result
SetResult(cl, k, result) ==
    [cl EXCEPT ![k].fut = "done", ![k].result = result, ![k].nres = @ + 1]

\* asyncio.Event.set(): every coroutine suspended in wait() is released
EventSet(tk, ev) ==
    IF ev THEN tk
    ELSE [t \in Tasks |->
            IF tk[t].pc \in {"idle", "debounce"}
            THEN [tk[t] EXCEPT !.wake = TRUE] ELSE tk[t]]

\* ---- one cycle of _batch_processor, as operators on the state it touches
ReqOf(cl, k) == [text |-> cl[k].text, target |-> cl[k].target, source |-> cl[k].source]

\* key = (request.target_language, request.source_language)
TargetOnlyKey(cl, k) == << cl[k].target, "auto" >>
GroupKey(cl, k) == << cl[k].target, cl[k].source >>

\* by_language: the batch split by key, groups in order of first appearance,
\* members in batch order
RECURSIVE Partition(_, _)
Partition(cl, batch) ==
    IF batch = <<>> THEN <<>>
    ELSE LET key == GroupKey(cl, Head(batch))
             same == SelectSeq(batch, LAMBDA k : GroupKey(cl, k) = key)
             rest == SelectSeq(batch, LAMBDA k : GroupKey(cl, k) # key)
         IN  << same >> \o Partition(cl, rest)

\* batch = self.batch_queue[:self.batch_size]
TakeTail(q, n) == SubSeq(q, Max(1, Len(q) - n + 1), Len(q))
TakeBatch(q, n) == SubSeq(q, 1, Min(n, Len(q)))

\* self.batch_queue = self.batch_queue[self.batch_size:]
KeepAll(q, n) == q
DropBatch(q, n) == SubSeq(q, Min(n, Len(q)) + 1, Len(q))

\* top of "while True": suspend in batch_event.wait() when the queue is
\* empty, else go on to asyncio.wait_for(self.batch_event.wait(), ...)
LoopTop(tk, q, ev) ==
    IF q = <<>>
    THEN [tk |-> [tk EXCEPT !.pc = "idle", !.wake = FALSE, !.dleft = 0,
                            !.batch = <<>>, !.seen = 0, !.todo = <<>>,
                            !.call = NoCall],
          ev |-> FALSE]
    ELSE [tk |-> [tk EXCEPT !.pc = "debounce", !.wake = ev,
                            !.dleft = IF ev THEN 0 ELSE batch_wait_time,
                            !.batch = <<>>, !.seen = 0, !.todo = <<>>,
                            !.call = NoCall],
          ev |-> ev]

\* texts = [request.text for request in group_requests];
\* translator.batch_translate_async(texts, target_lang) is called
IssueCallReversed(tk, cl) ==
    LET ids == Head(tk.todo)
    IN  [tk EXCEPT !.pc = "service",
                   !.call = [texts |-> [i \in 1..Len(ids) |->
                                          cl[ids[Len(ids) + 1 - i]].text],
                             target |-> cl[ids[1]].target]]
IssueCall(tk, cl) ==
    LET ids == Head(tk.todo)
    IN  [tk EXCEPT !.pc = "service",
                   !.call = [texts |-> [i \in 1..Len(ids) |-> cl[ids[i]].text],
                             target |-> GroupKey(cl, ids[1])[1]]]

ProceedUnlimited(t, tk, rl, q, ev, cl) ==
    IF tk.todo = <<>>
    THEN LET top == LoopTop(tk, q, ev)
         IN  [tk |-> top.tk, rl |-> rl, ev |-> top.ev]
    ELSE [tk |-> IssueCall(tk, cl), rl |-> rl, ev |-> ev]

\* "for ... in by_language.items()": acquire() for the next group, then the
\* service call; with no group left, back to the top of the loop
Proceed(t, tk, rl, q, ev, cl) ==
    IF tk.todo = <<>>
    THEN LET top == LoopTop(tk, q, ev)
         IN  [tk |-> top.tk, rl |-> rl, ev |-> top.ev]
    ELSE LET rl2 == LimCall(rl, t, requests_per_minute)
         IN  IF InAcquire(rl2, t)
             THEN [tk |-> [tk EXCEPT !.pc = "acquire"], rl |-> rl2, ev |-> ev]
             ELSE [tk |-> IssueCall(tk, cl), rl |-> rl2, ev |-> ev]

\* the success loop: zip(indices, group_requests, translated_texts); put and
\* set_result per text.  set_result on a done future raises InvalidStateError.
RECURSIVE ResolveOk(_, _, _, _)
ResolveOk(ids, outs, c, cl) ==
    IF ids = <<>> \/ outs = <<>> THEN [cache |-> c, calls |-> cl, raised |-> FALSE]
    ELSE LET k == Head(ids)
             key == GroupKey(cl, k)
             resp == Response(ReqOf(cl, k), Head(outs), key[1], key[2])
             c2 == Normalise(CachePut(c, resp, CacheNow(c), max_size))
         IN  IF cl[k].fut = "done"
             THEN [cache |-> c2, calls |-> [cl EXCEPT ![k].nres = @ + 1],
                   raised |-> TRUE]
             ELSE ResolveOk(Tail(ids), Tail(outs), c2, SetResult(cl, k, resp))

\* the "except Exception" loop: every future of the group that is not done
\* gets TranslationResponse.error(request, str(e))
ResolveFirstOnly(ids, cl, msg) ==
    IF ids = <<>> THEN cl
    ELSE IF cl[Head(ids)].fut = "done" THEN cl
    ELSE SetResult(cl, Head(ids), ErrorResponse(ReqOf(cl, Head(ids)), msg))
RECURSIVE ResolveErr(_, _, _)
ResolveErr(ids, cl, msg) ==
    IF ids = <<>> THEN cl
    ELSE LET k == Head(ids)
             cl2 == IF cl[k].fut = "done" THEN cl
                    ELSE SetResult(cl, k, ErrorResponse(ReqOf(cl, k), msg))
         IN  ResolveErr(Tail(ids), cl2, msg)

\* the "except asyncio.CancelledError" handler: every queued future that is
\* not done gets TranslationResponse.error(request, "... was stopped")
NoStopHandler(q, cl) == cl
StopHandler(q, cl) == ResolveErr(q, cl, StoppedText)

\* how the service call that carried the requests ended
MarkServed(cl, ids, outcome) ==
    [k \in 1..Len(cl) |->
        IF k \in Range(ids) THEN [cl[k] EXCEPT !.served = outcome] ELSE cl[k]]

limVars == << requests_per_minute >>
cfgVars == << batch_size, batch_wait_time, max_size, workload >>
directVars == << direct >>
queueVars == << batch_queue, batch_event, batch_task, task, calls,
                since_arrival >>
cacheOpVars == << cache_op >>
jobVars == << job >>
stopVars == << stop_pc, stop_task, stop_snap, stops >>

\* ---------------------------------------------------------------- start()
FreeSlots == { t \in Tasks : task[t].pc = "none" }
\* self.batch_task is None or self.batch_task.done()
AlwaysNeeds(tk, bt) == TRUE
NeedsTaskIn(tk, bt) == IF bt = 0 THEN TRUE ELSE tk[bt].pc = "done"
NeedsTask == NeedsTaskIn(task, batch_task)
NewSlot == CHOOSE t \in FreeSlots : \A u \in FreeSlots : t <= u

\* if self.batch_task is None or self.batch_task.done(): create_task(...)
StartTask(tk) == [tk EXCEPT ![NewSlot] = [NoTask EXCEPT !.pc = "new"]]

\* start() as a function of the processor tasks and batch_task
StartCall(tk, bt) ==
    IF NeedsTaskIn(tk, bt)
    THEN LET new == CHOOSE t \in Tasks :
                        /\ tk[t].pc = "none"
                        /\ \A u \in Tasks : tk[u].pc = "none" => t <= u
         IN  [task |-> [tk EXCEPT ![new] = [NoTask EXCEPT !.pc = "new"]],
              batch_task |-> new]
    ELSE [task |-> tk, batch_task |-> bt]

Start ==
    /\ NeedsTask
    /\ FreeSlots # {}
    /\ task' = StartCall(task, batch_task).task
    /\ batch_task' = StartCall(task, batch_task).batch_task
    /\ UNCHANGED << cfgVars, cacheOpVars, jobVars, directVars, limVars, stopVars, cache, rate_limiter,
                    batch_queue, batch_event, calls, since_arrival >>

\* ----------------------------------------------------- translate_queued()
\* a request that reaches a lone processor suspended on an empty queue
IdleArrival ==
    /\ batch_queue = <<>>
    /\ batch_task # 0
    /\ task[batch_task].pc = "idle" /\ ~task[batch_task].cancel
    /\ \A t \in Tasks : Alive(t) => t = batch_task

\* self.batch_event.set() in translate_queued
NoEventSet(tk, ev) == tk
SignalNewRequest(tk, ev) == EventSet(tk, ev)

TranslateQueued(text, pair) ==
    LET k == Len(calls) + 1
        hit == CacheFind(cache, _generate_key(text, pair[1], pair[2]))
        call == [text |-> text, target |-> pair[1], source |-> pair[2],
                 fut |-> "pending", result |-> NoResult, nres |-> 0,
                 served |-> ""]
    IN  /\ Len(calls) < workload.calls
        /\ IF hit # 0
           THEN /\ cache' = Normalise(CacheTouch(cache, hit, CacheNow(cache)))
                /\ calls' = Append(calls, [call EXCEPT !.fut = "hit",
                                                       !.result = cache[hit].value])
                /\ UNCHANGED << batch_queue, batch_event, batch_task, task,
                                since_arrival >>
           ELSE /\ NeedsTask => FreeSlots # {}
                /\ calls' = Append(calls, call)
                /\ batch_queue' = Append(batch_queue, k)
                /\ batch_event' = TRUE
                /\ LET woken == SignalNewRequest(task, batch_event)
                   IN  IF NeedsTask
                       THEN /\ task' = StartTask(woken)
                            /\ batch_task' = NewSlot
                       ELSE /\ task' = woken
                            /\ UNCHANGED batch_task
                /\ since_arrival' = IF IdleArrival THEN 0 ELSE -1
                /\ UNCHANGED cache
        /\ UNCHANGED << cfgVars, cacheOpVars, jobVars, directVars, limVars, stopVars, rate_limiter >>

\* ------------------------------------------- steps of _batch_processor
\* first step of the task: the coroutine runs to its first suspension
ProcStart(t) ==
    /\ task[t].pc = "new" /\ ~task[t].cancel
    /\ LET top == LoopTop(task[t], batch_queue, batch_event)
       IN  /\ task' = [task EXCEPT ![t] = top.tk]
           /\ batch_event' = top.ev
    /\ UNCHANGED << cfgVars, cacheOpVars, jobVars, directVars, limVars, stopVars, cache, rate_limiter,
                    batch_queue, batch_task, calls, since_arrival >>

\* "await self.batch_event.wait()" returns; wait_for(...) is entered
ProcWake(t) ==
    /\ task[t].pc = "idle" /\ task[t].wake /\ ~task[t].cancel
    /\ task' = [task EXCEPT ![t].pc = "debounce", ![t].wake = batch_event,
                            ![t].dleft = IF batch_event THEN 0 ELSE batch_wait_time]
    /\ UNCHANGED << cfgVars, cacheOpVars, jobVars, directVars, limVars, stopVars, cache, rate_limiter,
                    batch_queue, batch_event, batch_task, calls,
                    since_arrival >>

\* wait_for returns (event set, or timeout); "async with self.batch_lock":
\* take the batch, group it, acquire() for the first group
DebounceEnd(t) ==
    /\ task[t].pc = "debounce" /\ ~task[t].cancel
    /\ task[t].wake \/ task[t].dleft = 0
    /\ IF batch_queue = <<>>
       THEN LET top == LoopTop(task[t], batch_queue, batch_event)
            IN  /\ task' = [task EXCEPT ![t] = top.tk]
                /\ batch_event' = top.ev
                /\ UNCHANGED << batch_queue, rate_limiter, since_arrival >>
       ELSE LET batch == TakeBatch(batch_queue, batch_size)
                rest == DropBatch(batch_queue, batch_size)
                others == IF rest # <<>> THEN EventSet(task, batch_event) ELSE task
                tk == [task[t] EXCEPT !.batch = batch, !.wake = FALSE, !.dleft = 0,
                                      !.seen = Len(batch_queue),
                                      !.todo = Partition(calls, batch)]
                go == Proceed(t, tk, rate_limiter, rest, rest # <<>>, calls)
            IN  /\ batch_queue' = rest
                /\ task' = [others EXCEPT ![t] = go.tk]
                /\ batch_event' = go.ev
                /\ rate_limiter' = go.rl
                /\ since_arrival' = -1
    /\ UNCHANGED << cfgVars, cacheOpVars, jobVars, directVars, limVars, stopVars, cache, batch_task, calls >>

\* the task is resumed inside acquire(): the lock was handed to it and the
\* body runs, or asyncio.sleep(wait_time) is over (append, release); once
\* acquire() has returned the service is called
TaskAcquireResume(t) ==
    /\ task[t].pc = "acquire" /\ ~task[t].cancel
    /\ rate_limiter.holder = t
    /\ rate_limiter.entered => rate_limiter.sleep_left = 0
    /\ LET rl2 == IF rate_limiter.entered THEN Grant(rate_limiter)
                  ELSE LimEnter(rate_limiter, t, requests_per_minute)
       IN  /\ rate_limiter' = rl2
           /\ task' = IF InAcquire(rl2, t) THEN task
                      ELSE [task EXCEPT ![t] = IssueCall(task[t], calls)]
    /\ UNCHANGED << cfgVars, cacheOpVars, jobVars, directVars, limVars, stopVars, cache, batch_queue,
                    batch_event, batch_task, calls, since_arrival >>

\* batch_translate_async returns a list of n translated texts (ok) or
\* raises: resolve the group's futures as far as zip pairs them with a text,
\* then the next group or the top of the loop
ServiceReply(t, ok, n) ==
    /\ task[t].pc = "service" /\ ~task[t].cancel
    /\ LET ids == Head(task[t].todo)
           outs == SubSeq(ServiceOutput(task[t].call.texts, task[t].call.target),
                          1, Min(n, Len(task[t].call.texts)))
           r == ResolveOk(ids, outs, cache, calls)
           calls2 == IF ~ok THEN ResolveErr(ids, calls, ServiceErrorText)
                     ELSE IF r.raised THEN ResolveErr(ids, r.calls, InvalidStateText)
                     ELSE r.calls
           calls3 == MarkServed(calls2, ids, IF ok THEN "ok" ELSE "failed")
           go == Proceed(t, [task[t] EXCEPT !.todo = Tail(@), !.call = NoCall],
                         rate_limiter, batch_queue, batch_event, calls3)
       IN  /\ calls' = calls3
           /\ cache' = IF ok THEN r.cache ELSE cache
           /\ task' = [task EXCEPT ![t] = go.tk]
           /\ rate_limiter' = go.rl
           /\ batch_event' = go.ev
    /\ UNCHANGED << cfgVars, cacheOpVars, jobVars, directVars, limVars, stopVars, batch_queue, batch_task,
                    since_arrival >>

\* the reply of a service that returns one translated text per text
ServiceReturn(t, ok) ==
    /\ task[t].pc = "service"
    /\ ServiceReply(t, ok, Len(task[t].call.texts))

\* CancelledError is thrown into the task at its suspension point.  A task
\* that has not run yet ends without entering the try block; otherwise the
\* "except asyncio.CancelledError" handler runs.
ProcCancelled(t) ==
    /\ Alive(t) /\ task[t].cancel
    /\ task' = [task EXCEPT ![t] = [NoTask EXCEPT !.pc = "done", !.cancel = TRUE]]
    /\ IF task[t].pc = "new"
       THEN UNCHANGED << batch_queue, calls, rate_limiter, since_arrival >>
       ELSE /\ calls' = StopHandler(batch_queue, calls)
            /\ batch_queue' = <<>>
            /\ rate_limiter' = IF task[t].pc = "acquire"
                               THEN LimCancel(rate_limiter, t) ELSE rate_limiter
            /\ since_arrival' = -1
    /\ UNCHANGED << cfgVars, cacheOpVars, jobVars, directVars, limVars, stopVars, cache, batch_event, batch_task >>

\* ----------------------------------------------------------------- stop()
\* if self.batch_task and not self.batch_task.done(): cancel(), await it
StopAnyway(tk, bt) == TRUE
StopActs(tk, bt) == bt # 0 /\ tk[bt].pc # "done"

StopBegin ==
    /\ stop_pc = "idle"
    /\ stops < MaxStops
    /\ stops' = stops + 1
    /\ StopActs(task, batch_task)
    /\ task' = [task EXCEPT ![batch_task].cancel = TRUE]
    /\ stop_pc' = "await"
    /\ stop_task' = batch_task
    /\ stop_snap' = Pending
    /\ UNCHANGED << cfgVars, cacheOpVars, jobVars, directVars, limVars, cache, rate_limiter, batch_queue,
                    batch_event, batch_task, calls, since_arrival >>

\* "await self.batch_task" is over: self.batch_task = None
StopEnd ==
    /\ stop_pc = "await"
    /\ task[stop_task].pc = "done"
    /\ batch_task' = 0
    /\ stop_pc' = "idle"
    /\ stop_task' = 0
    /\ stop_snap' = {}
    /\ task' = [task EXCEPT ![stop_task] = NoTask]
    /\ UNCHANGED << cfgVars, cacheOpVars, jobVars, directVars, limVars, cache, rate_limiter, batch_queue,
                    batch_event, calls, since_arrival, stops >>

\* ------------------------------------------------------------------ time
\* d seconds pass
Advance(d) ==
    /\ rate_limiter' = LimTick(rate_limiter, d)
    /\ task' = [t \in Tasks |-> [task[t] EXCEPT !.dleft = Max(0, @ - d)]]
    /\ since_arrival' = IF since_arrival < 0 THEN since_arrival
                        ELSE Min(since_arrival + d, batch_wait_time)
    /\ UNCHANGED << cfgVars, cacheOpVars, jobVars, directVars, limVars, stopVars, cache, batch_queue,
                    batch_event, batch_task, calls >>

Tick == Advance(Window)

\* TranslationCache.get(text, target_language, source_language): the stored
\* response and a refreshed access time on a hit, None (NoResult) on a miss
GetTouchesFirst(c, text, target_language, source_language) ==
    LET i == CacheFind(c, _generate_key(text, target_language, source_language))
    IN  IF i = 0
        THEN [cache |-> IF c = <<>> THEN c
                        ELSE Normalise(CacheTouch(c, 1, CacheNow(c))),
              value |-> NoResult]
        ELSE [cache |-> Normalise(CacheTouch(c, i, CacheNow(c))),
              value |-> c[i].value]
CacheGet(c, text, target_language, source_language) ==
    LET i == CacheFind(c, _generate_key(text, target_language, source_language))
    IN  IF i = 0 THEN [cache |-> c, value |-> NoResult]
        ELSE [cache |-> Normalise(CacheTouch(c, i, CacheNow(c))),
              value |-> c[i].value]

\* ------------------------------------- a TranslationCache used on its own
\* the last operation: its key, whether the key was stored, the keys that
\* left the cache and the position one of them had
NoCacheOp == [op |-> "", key |-> "", hit |-> FALSE, evicted |-> {}, at |-> 0]

Keys(c) == { c[i].key : i \in 1..Len(c) }

\* cache.get(text, target_language, source_language)
CacheGetOp(text, pair) ==
    LET got == CacheGet(cache, text, pair[1], pair[2])
    IN  /\ cache' = got.cache
        /\ cache_op' = [NoCacheOp EXCEPT
                           !.op = "get",
                           !.key = _generate_key(text, pair[1], pair[2]),
                           !.hit = got.value # NoResult]
        /\ UNCHANGED << limVars, cfgVars, stopVars, queueVars, directVars, jobVars,
                        rate_limiter >>

\* cache.put(response)
CachePutOp(response) ==
    LET key == _generate_key(response.source_text, response.target_language,
                             response.source_language)
        c2 == Normalise(CachePut(cache, response, CacheNow(cache), max_size))
        gone == { i \in 1..Len(cache) : cache[i].key \notin Keys(c2) }
    IN  /\ cache' = c2
        /\ cache_op' = [NoCacheOp EXCEPT
                           !.op = "put", !.key = key,
                           !.hit = key \in Keys(cache),
                           !.evicted = { cache[i].key : i \in gone },
                           !.at = IF gone = {} THEN 0
                                  ELSE CHOOSE i \in gone : TRUE]
        /\ UNCHANGED << limVars, cfgVars, stopVars, queueVars, directVars, jobVars,
                        rate_limiter >>

\* cache.clear()
CacheClearOp ==
    /\ cache' = <<>>
    /\ cache_op' = [NoCacheOp EXCEPT !.op = "clear"]
    /\ UNCHANGED << limVars, cfgVars, stopVars, queueVars, directVars, jobVars,
                    rate_limiter >>

\* ================== translate(), translate_batch(), translate_srt_file()
from_language == "auto"                  \* AppConfig.from_language

NoInvocation ==
    [ kind |-> "", texts |-> <<>>, target |-> "", source |-> "",
      entries |-> <<>>, pc |-> "done", responses |-> <<>>, uncached |-> <<>>,
      result |-> <<>>, file |-> <<>>, svc |-> 0, served |-> "",
      alone |-> TRUE ]

\* the identity under which invocation d calls rate_limiter.acquire()
DirectId(d) == MaxTasks + d

\* the request built for the i-th text of an invocation
RequestOf(inv, i) ==
    [text |-> inv.texts[i], target |-> inv.target, source |-> inv.source]

\* self.cache.get(...) for every text, in order: a hit refreshes the entry's
\* access time, a miss yields None (NoResult)
RECURSIVE GetAll(_, _, _, _)
GetAll(c, texts, target, source) ==
    IF texts = <<>> THEN [cache |-> c, responses |-> <<>>]
    ELSE LET got == CacheGet(c, Head(texts), target, source)
             rest == GetAll(got.cache, Tail(texts), target, source)
         IN  [cache |-> rest.cache, responses |-> <<got.value>> \o rest.responses]

EveryIndex(responses) == [i \in 1..Len(responses) |-> i]

\* uncached_indices = [i for i, response in enumerate(responses) if response is None]
Uncached(responses) ==
    SelectSeq([i \in 1..Len(responses) |-> i],
              LAMBDA i : responses[i] = NoResult)

\* [r for r in responses if r is not None]
NotNone(responses) == SelectSeq(responses, LAMBDA r : r # NoResult)

\* for i, translated_text in zip(uncached_indices, translated_texts): build
\* the response, cache.put(response), responses[i] = response
RECURSIVE StoreAll(_, _, _, _, _)
StoreAll(inv, idx, outs, c, responses) ==
    IF idx = <<>> \/ outs = <<>> THEN [cache |-> c, responses |-> responses]
    ELSE LET i == Head(idx)
             resp == Response(RequestOf(inv, i), Head(outs), inv.target,
                              inv.source)
             c2 == Normalise(CachePut(c, resp, CacheNow(c), max_size))
         IN  StoreAll(inv, Tail(idx), Tail(outs), c2,
                      [responses EXCEPT ![i] = resp])

\* for i in uncached_indices: responses[i] = TranslationResponse.error(request, str(e))
FailNone(inv, responses, msg) == responses
FailAll(inv, responses, msg) ==
    [i \in 1..Len(responses) |->
        IF i \in Range(inv.uncached)
        THEN ErrorResponse(RequestOf(inv, i), msg)
        ELSE responses[i]]

\* content_lines: the content of all entries, in order
RECURSIVE ContentLines(_)
ContentLines(entries) ==
    IF entries = <<>> THEN <<>>
    ELSE Head(entries).content \o ContentLines(Tail(entries))

\* the reconstruction loop of translate_srt_file: every entry takes the
\* slice translated_lines[line_index : line_index + num_lines]
OneLineEach(entries, lines) ==
    [i \in 1..Len(entries) |->
        [entries[i] EXCEPT !.content = SubSeq(lines, Min(i, Len(lines) + 1),
                                              Min(i, Len(lines)))]]
\* the entries numbered by their position in the file
Renumbered(entries, lines) ==
    [i \in 1..Len(entries) |->
        [entries[i] EXCEPT !.index = i,
                           !.content = SubSeq(lines, Min(i, Len(lines) + 1),
                                              Min(i, Len(lines)))]]
RECURSIVE Rebuild(_, _)
Rebuild(entries, lines) ==
    IF entries = <<>> THEN <<>>
    ELSE LET n == Min(Len(Head(entries).content), Len(lines))
         IN  <<[Head(entries) EXCEPT !.content = SubSeq(lines, 1, n)]>>
                 \o Rebuild(Tail(entries), SubSeq(lines, n + 1, Len(lines)))

FinishOrRetry(inv, responses, served) ==
    IF served = "failed"
    THEN [inv EXCEPT !.pc = "service", !.svc = @ + 1]
    ELSE [inv EXCEPT !.pc = "done", !.responses = responses,
                     !.result = NotNone(responses), !.served = served]

\* the invocation returns to its caller
Finish(inv, responses, served) ==
    LET res == NotNone(responses)
    IN  [inv EXCEPT !.pc = "done", !.responses = responses, !.result = res,
                    !.served = served,
                    !.file = IF inv.kind = "translate_srt_file"
                             THEN Rebuild(inv.entries,
                                          [i \in 1..Len(res) |->
                                              res[i].translated_text])
                             ELSE <<>>]

\* the cache lookups and, when something is uncached, the call of
\* rate_limiter.acquire(): the code up to the first suspension
Begin(kind, texts, target, source, entries) ==
    LET d == Len(direct) + 1
        got == GetAll(cache, texts, target, source)
        unc == Uncached(got.responses)
        inv == [NoInvocation EXCEPT
                   !.kind = kind, !.texts = texts, !.target = target,
                   !.source = source, !.entries = entries,
                   !.responses = got.responses, !.uncached = unc,
                   !.alone = \A j \in 1..Len(direct) : direct[j].pc = "done"]
        rl2 == LimCall(rate_limiter, DirectId(d), requests_per_minute)
    IN  /\ Len(direct) < MaxDirect
        /\ cache' = got.cache
        /\ IF unc = <<>>
           THEN /\ direct' = Append(direct, Finish(inv, got.responses, "hit"))
                /\ UNCHANGED rate_limiter
           ELSE /\ rate_limiter' = rl2
                /\ direct' = Append(direct,
                      IF InAcquire(rl2, DirectId(d))
                      THEN [inv EXCEPT !.pc = "acquire"]
                      ELSE [inv EXCEPT !.pc = "service", !.svc = 1])
        /\ UNCHANGED << cfgVars, cacheOpVars, jobVars, limVars, stopVars, queueVars >>

\* translate(text, target_language, source_language)
Translate(text, pair) == Begin("translate", <<text>>, pair[1], pair[2], <<>>)

\* translate_batch(texts, target_language, source_language)
TranslateBatch(texts, pair) ==
    Begin("translate_batch", texts, pair[1], pair[2], <<>>)

\* translate_srt_file(srt_file, target_language)
TranslateSrtFile(entries, target) ==
    Begin("translate_srt_file", ContentLines(entries), target, from_language,
          entries)

\* acquire() goes on: the lock was handed over, or the sleep is over
DirectAcquireResume(d) ==
    /\ d \in 1..Len(direct)
    /\ direct[d].pc = "acquire"
    /\ rate_limiter.holder = DirectId(d)
    /\ rate_limiter.entered => rate_limiter.sleep_left = 0
    /\ LET rl2 == IF rate_limiter.entered THEN Grant(rate_limiter)
                  ELSE LimEnter(rate_limiter, DirectId(d), requests_per_minute)
       IN  /\ rate_limiter' = rl2
           /\ direct' = IF InAcquire(rl2, DirectId(d)) THEN direct
                        ELSE [direct EXCEPT ![d].pc = "service",
                                            ![d].svc = @ + 1]
    /\ UNCHANGED << cfgVars, cacheOpVars, jobVars, limVars, stopVars, queueVars, cache >>

\* the service call of an invocation returns (ok) or raises
Return(d, ok) ==
    LET inv == direct[d]
        texts == [k \in 1..Len(inv.uncached) |-> inv.texts[inv.uncached[k]]]
        outs == ServiceOutput(texts, inv.target)
        st == StoreAll(inv, inv.uncached, outs, cache, inv.responses)
    IN  /\ inv.pc = "service"
        /\ IF ok
           THEN /\ cache' = st.cache
                /\ direct' = [direct EXCEPT ![d] = Finish(inv, st.responses, "ok")]
           ELSE /\ UNCHANGED cache
                /\ direct' = [direct EXCEPT ![d] =
                      Finish(inv, FailAll(inv, inv.responses, ServiceErrorText),
                             "failed")]
        /\ UNCHANGED << cfgVars, cacheOpVars, jobVars, limVars, stopVars, queueVars, rate_limiter >>

\* translator.translate_async(text, target_language) is over
TranslateReturn(d, ok) ==
    /\ d \in 1..Len(direct)
    /\ direct[d].kind = "translate"
    /\ Return(d, ok)

\* translator.batch_translate_async(uncached_texts, target_language) is over
TranslateBatchReturn(d, ok) ==
    /\ d \in 1..Len(direct)
    /\ direct[d].kind \in {"translate_batch", "translate_srt_file"}
    /\ Return(d, ok)

\* ------------------------------------------------- direct acquire() callers
mgrVars == << batch_size, batch_wait_time, max_size, cache, batch_queue,
              batch_event, batch_task, task, calls, stop_pc, stop_task,
              stop_snap, stops, since_arrival, workload, direct, cache_op,
              job >>

CallAcquire(c) ==
    /\ ~InAcquire(rate_limiter, c)
    /\ rate_limiter' = LimCall(rate_limiter, c, requests_per_minute)
    /\ UNCHANGED << mgrVars, requests_per_minute >>

AcquireProceed(c) ==
    /\ rate_limiter.holder = c /\ ~rate_limiter.entered
    /\ rate_limiter' = LimEnter(rate_limiter, c, requests_per_minute)
    /\ UNCHANGED << mgrVars, requests_per_minute >>

AcquireWake(c) ==
    /\ rate_limiter.holder = c /\ rate_limiter.entered
    /\ rate_limiter.sleep_left = 0
    /\ rate_limiter' = Grant(rate_limiter)
    /\ UNCHANGED << mgrVars, requests_per_minute >>

CancelAcquire(c) ==
    /\ InAcquire(rate_limiter, c)
    /\ rate_limiter' = LimCancel(rate_limiter, c)
    /\ UNCHANGED << mgrVars, requests_per_minute >>

RateTick ==
    /\ rate_limiter' = LimTick(rate_limiter, TickLen)
    /\ UNCHANGED << mgrVars, requests_per_minute >>

Callers == 1..MaxCallers

\* ------------------------------------------------------- specifications
NoJob ==
    [ kind |-> "", K |-> 0, show_progress |-> FALSE, target |-> "",
      entries |-> <<>>,
      unit |-> <<>>, sem |-> [value |-> 0, waiters |-> <<>>, woken |-> {}],
      completed |-> <<>>, out |-> <<>>, pc |-> "idle" ]

InitRest ==
    /\ batch_wait_time = 1
    /\ job = NoJob
    /\ cache_op = NoCacheOp
    /\ cache = <<>>
    /\ rate_limiter = NewLimiter
    /\ batch_queue = <<>>
    /\ batch_event = FALSE
    /\ batch_task = 0
    /\ task = [t \in Tasks |-> NoTask]
    /\ calls = <<>>
    /\ stop_pc = "idle"
    /\ stop_task = 0
    /\ stop_snap = {}
    /\ stops = 0
    /\ since_arrival = -1
    /\ direct = <<>>

InitCommon ==
    /\ max_size = 2
    /\ InitRest

Init ==
    /\ InitCommon
    /\ batch_size = 2
    /\ requests_per_minute = 1
    /\ workload = [calls |-> MaxCalls, texts |-> Texts, pairs |-> Pairs]

Next ==
    \/ \E text \in workload.texts, pair \in workload.pairs :
          TranslateQueued(text, pair)
    \/ Start
    \/ \E t \in Tasks : ProcStart(t)
    \/ \E t \in Tasks : ProcWake(t)
    \/ \E t \in Tasks : DebounceEnd(t)
    \/ \E t \in Tasks : TaskAcquireResume(t)
    \/ \E t \in Tasks, ok \in BOOLEAN : ServiceReturn(t, ok)
    \/ \E t \in Tasks : ProcCancelled(t)
    \/ StopBegin
    \/ StopEnd
    \/ Tick

Spec == Init /\ [][Next]_vars

RateInit ==
    /\ InitCommon
    /\ batch_size = 1
    /\ requests_per_minute \in {1, 2}
    /\ workload = [calls |-> 0, texts |-> {}, pairs |-> {}]

RateNext ==
    \/ \E c \in Callers : CallAcquire(c)
    \/ \E c \in Callers : AcquireProceed(c)
    \/ \E c \in Callers : AcquireWake(c)
    \/ \E c \in Callers : CancelAcquire(c)
    \/ RateTick

RateSpec == RateInit /\ [][RateNext]_vars

\* ---- acquire() calls that are left to run: no caller is cancelled, the
\* event loop resumes the coroutine that holds the lock and time passes
RateLiveNext ==
    \/ \E c \in Callers : CallAcquire(c)
    \/ \E c \in Callers : AcquireProceed(c)
    \/ \E c \in Callers : AcquireWake(c)
    \/ RateTick

RateLiveSpec ==
    /\ RateInit /\ [][RateLiveNext]_vars
    /\ WF_vars(\E c \in Callers : AcquireProceed(c))
    /\ WF_vars(\E c \in Callers : AcquireWake(c))
    /\ WF_vars(RateTick)

\* ---- no stop(): the processor under the scheduling of the event loop.
\* A ready coroutine is run, a service call returns or fails, time passes.
LiveInit ==
    /\ InitCommon
    /\ batch_size \in {1, 2}
    /\ requests_per_minute = 1
    /\ workload = [calls |-> MaxCalls, texts |-> Texts, pairs |-> Pairs]

LiveNext ==
    \/ \E text \in workload.texts, pair \in workload.pairs :
          TranslateQueued(text, pair)
    \/ Start
    \/ \E t \in Tasks : ProcStart(t)
    \/ \E t \in Tasks : ProcWake(t)
    \/ \E t \in Tasks : DebounceEnd(t)
    \/ \E t \in Tasks : TaskAcquireResume(t)
    \/ \E t \in Tasks, ok \in BOOLEAN : ServiceReturn(t, ok)
    \/ Tick

LiveSpec ==
    /\ LiveInit
    /\ [][LiveNext]_vars
    /\ WF_vars(\E t \in Tasks : ProcStart(t))
    /\ WF_vars(\E t \in Tasks : ProcWake(t))
    /\ WF_vars(\E t \in Tasks : DebounceEnd(t))
    /\ WF_vars(\E t \in Tasks : TaskAcquireResume(t))
    /\ WF_vars(\E t \in Tasks, ok \in BOOLEAN : ServiceReturn(t, ok))
    /\ WF_vars(Tick)

\* ---- the manager with stop(), every started step eventually taken: the
\* event loop runs every task that is ready, the service answers, time passes
\* and a stop() that was called runs to its end; callers are free to call
\* or not
StopLiveSpec ==
    /\ Init
    /\ [][Next]_vars
    /\ WF_vars(\E t \in Tasks : ProcStart(t))
    /\ WF_vars(\E t \in Tasks : ProcWake(t))
    /\ WF_vars(\E t \in Tasks : DebounceEnd(t))
    /\ WF_vars(\E t \in Tasks : TaskAcquireResume(t))
    /\ WF_vars(\E t \in Tasks, ok \in BOOLEAN : ServiceReturn(t, ok))
    /\ WF_vars(\E t \in Tasks : ProcCancelled(t))
    /\ WF_vars(StopEnd)
    /\ WF_vars(Tick)

\* ---- the default batch size, more requests than one batch holds, one
\* language pair, the default rate limit (never reached), a service that
\* succeeds
ScenarioCalls == DefaultBatchSize + 2

BatchInit ==
    /\ InitCommon
    /\ batch_size \in {2, DefaultBatchSize}
    /\ requests_per_minute = DefaultRequestsPerMinute
    /\ workload = [calls |-> ScenarioCalls, texts |-> {"a"},
                   pairs |-> { <<"es", "auto">> }]

BatchNext ==
    \/ \E text \in workload.texts, pair \in workload.pairs :
          TranslateQueued(text, pair)
    \/ Start
    \/ \E t \in Tasks : ProcStart(t)
    \/ \E t \in Tasks : ProcWake(t)
    \/ \E t \in Tasks : DebounceEnd(t)
    \/ \E t \in Tasks : ServiceReturn(t, TRUE)

BatchSpec == BatchInit /\ [][BatchNext]_vars

\* ---- processing cycles on requests with different texts: no stop(), the
\* default rate limit (never reached)
CycleInit ==
    /\ InitCommon
    /\ batch_size = 2
    /\ requests_per_minute = DefaultRequestsPerMinute
    /\ workload = [calls |-> MaxCalls, texts |-> {"a", "b"}, pairs |-> Pairs]

CycleNext ==
    \/ \E text \in workload.texts, pair \in workload.pairs :
          TranslateQueued(text, pair)
    \/ Start
    \/ \E t \in Tasks : ProcStart(t)
    \/ \E t \in Tasks : ProcWake(t)
    \/ \E t \in Tasks : DebounceEnd(t)
    \/ \E t \in Tasks, ok \in BOOLEAN : ServiceReturn(t, ok)

CycleSpec == CycleInit /\ [][CycleNext]_vars

\* ---- processing cycles with a service that may return fewer translated
\* texts than it was given (any TranslatorService can be passed in)
ShortNext ==
    \/ \E text \in workload.texts, pair \in workload.pairs :
          TranslateQueued(text, pair)
    \/ Start
    \/ \E t \in Tasks : ProcStart(t)
    \/ \E t \in Tasks : ProcWake(t)
    \/ \E t \in Tasks : DebounceEnd(t)
    \/ \E t \in Tasks, ok \in BOOLEAN, n \in 0..MaxCalls : ServiceReply(t, ok, n)

ShortSpec == CycleInit /\ [][ShortNext]_vars

\* ---- translate() calls alone, with and without the rate limit in reach
TranslateInit ==
    /\ InitCommon
    /\ batch_size = 2
    /\ requests_per_minute \in {1, DefaultRequestsPerMinute}
    /\ workload = [calls |-> 0, texts |-> {"a", "b"}, pairs |-> Pairs]

TranslateNext ==
    \/ \E text \in workload.texts, pair \in workload.pairs : Translate(text, pair)
    \/ \E d \in 1..MaxDirect : DirectAcquireResume(d)
    \/ \E d \in 1..MaxDirect, ok \in BOOLEAN : TranslateReturn(d, ok)
    \/ Tick

TranslateSpec == TranslateInit /\ [][TranslateNext]_vars

\* ---- every user of the rate limiter side by side: two queued requests and
\* their processor, translate() and translate_batch(), on a limiter of one
\* request per minute; no stop().  The batch calls of the service fail, so
\* that only translate() fills the cache and the later calls still need the
\* service.
GrantInputs == { << "a", "b" >> }

GrantInit ==
    /\ InitCommon
    /\ batch_size = 2
    /\ requests_per_minute = 1
    /\ workload = [calls |-> 2, texts |-> {"a"}, pairs |-> Pairs]

GrantNext ==
    \/ \E text \in workload.texts, pair \in workload.pairs :
          TranslateQueued(text, pair)
    \/ Start
    \/ \E t \in Tasks : ProcStart(t)
    \/ \E t \in Tasks : ProcWake(t)
    \/ \E t \in Tasks : DebounceEnd(t)
    \/ \E t \in Tasks : TaskAcquireResume(t)
    \/ \E t \in Tasks : ServiceReturn(t, FALSE)
    \/ \E text \in workload.texts : Translate(text, << "es", "auto" >>)
    \/ \E texts \in GrantInputs : TranslateBatch(texts, << "es", "auto" >>)
    \/ \E d \in 1..MaxDirect : DirectAcquireResume(d)
    \/ \E d \in 1..MaxDirect, ok \in BOOLEAN : TranslateReturn(d, ok)
    \/ \E d \in 1..MaxDirect : TranslateBatchReturn(d, FALSE)
    \/ Tick

GrantSpec == GrantInit /\ [][GrantNext]_vars

\* ---- translate() and translate_batch() on one manager whose limiter allows
\* one request per minute: calls that miss, wait and store, and calls that
\* find everything they ask for in the cache
HitInputs == { << "a" >>, << "a", "b" >>, << "b", "a" >> }

HitInit ==
    /\ InitCommon
    /\ batch_size = 2
    /\ requests_per_minute = 1
    /\ workload = [calls |-> 0, texts |-> {"a", "b"},
                   pairs |-> { << "es", "auto" >> }]

HitNext ==
    \/ \E text \in workload.texts, pair \in workload.pairs : Translate(text, pair)
    \/ \E texts \in HitInputs, pair \in workload.pairs :
          TranslateBatch(texts, pair)
    \/ \E d \in 1..MaxDirect : DirectAcquireResume(d)
    \/ \E d \in 1..MaxDirect, ok \in BOOLEAN : TranslateReturn(d, ok)
    \/ \E d \in 1..MaxDirect, ok \in BOOLEAN : TranslateBatchReturn(d, ok)
    \/ Tick

HitSpec == HitInit /\ [][HitNext]_vars

\* ---- service calls that succeed or fail, for every kind of caller, under
\* the default rate limit (never reached) and without stop(): either two
\* queued requests alone (one partition or two), or one queued request
\* beside translate() and translate_batch() calls
RetryInit ==
    /\ InitCommon
    /\ batch_size = 2
    /\ requests_per_minute = DefaultRequestsPerMinute
    /\ workload \in { [calls |-> n, texts |-> {"a"}, pairs |-> Pairs] :
                        n \in {1, 2} }

RetryNext ==
    \/ \E text \in workload.texts, pair \in workload.pairs :
          TranslateQueued(text, pair)
    \/ Start
    \/ \E t \in Tasks : ProcStart(t)
    \/ \E t \in Tasks : ProcWake(t)
    \/ \E t \in Tasks : DebounceEnd(t)
    \/ \E t \in Tasks, ok \in BOOLEAN : ServiceReturn(t, ok)
    \/ \E text \in workload.texts :
          workload.calls = 1 /\ Translate(text, << "es", "auto" >>)
    \/ \E texts \in GrantInputs :
          workload.calls = 1 /\ TranslateBatch(texts, << "es", "auto" >>)
    \/ \E d \in 1..MaxDirect, ok \in BOOLEAN : TranslateReturn(d, ok)
    \/ \E d \in 1..MaxDirect, ok \in BOOLEAN : TranslateBatchReturn(d, ok)
    \/ Tick

RetrySpec == RetryInit /\ [][RetryNext]_vars

\* ---- the same callers with stop(): calls that succeed or fail and a
\* processor that may be cancelled at any of its suspension points
ManagerInit ==
    /\ InitCommon
    /\ batch_size = 2
    /\ requests_per_minute = DefaultRequestsPerMinute
    /\ workload = [calls |-> 1, texts |-> {"a"}, pairs |-> { << "es", "auto" >> }]

ManagerNext ==
    \/ \E text \in workload.texts, pair \in workload.pairs :
          TranslateQueued(text, pair)
    \/ Start
    \/ \E t \in Tasks : ProcStart(t)
    \/ \E t \in Tasks : ProcWake(t)
    \/ \E t \in Tasks : DebounceEnd(t)
    \/ \E t \in Tasks, ok \in BOOLEAN : ServiceReturn(t, ok)
    \/ \E t \in Tasks : ProcCancelled(t)
    \/ StopBegin
    \/ StopEnd
    \/ \E text \in workload.texts, pair \in workload.pairs :
          Translate(text, pair)
    \/ \E text \in workload.texts, pair \in workload.pairs :
          TranslateBatch(<< text >>, pair)
    \/ \E d \in 1..MaxDirect, ok \in BOOLEAN : TranslateReturn(d, ok)
    \/ \E d \in 1..MaxDirect, ok \in BOOLEAN : TranslateBatchReturn(d, ok)

ManagerSpec == ManagerInit /\ [][ManagerNext]_vars

\* ---- translate_batch() calls: empty, single, repeated and mixed lists, of
\* texts and source languages that may contain the character '|'
BatchInputs ==
    { <<>>, <<"a">>, <<"a|b">>, <<"a", "a|b">>, <<"a|b", "a">>, <<"a", "a">>,
      <<"a", "a|b", "a">> }

BatchPairs == { <<"es", "c">>, <<"es", "b|c">> }     \* (target, source)

BatchCallInit ==
    /\ InitCommon
    /\ batch_size = 2
    /\ requests_per_minute = DefaultRequestsPerMinute
    /\ workload = [calls |-> 0, texts |-> {"a", "a|b"}, pairs |-> BatchPairs]

BatchCallNext ==
    \/ \E texts \in BatchInputs, pair \in workload.pairs :
          TranslateBatch(texts, pair)
    \/ \E d \in 1..MaxDirect, ok \in BOOLEAN : TranslateBatchReturn(d, ok)

BatchCallSpec == BatchCallInit /\ [][BatchCallNext]_vars

\* ---- translate_srt_file() on small files, after or beside translate()
Entry(i, content) ==
    [ index |-> i, start_time |-> "00:00:0" \o ToString(i) \o ",000",
      end_time |-> "00:00:0" \o ToString(i) \o ",900", content |-> content ]

SrtInputs ==
    { <<>>,
      << Entry(1, <<"a">>) >>,
      << Entry(1, <<"a", "b">>), Entry(2, <<>>), Entry(3, <<"a">>) >>,
      << Entry(3, <<"b">>), Entry(1, <<"a">>) >> }

FileInit ==
    /\ InitCommon
    /\ batch_size = 2
    /\ requests_per_minute = DefaultRequestsPerMinute
    /\ workload = [calls |-> 0, texts |-> {"a", "b"},
                   pairs |-> { <<"es", from_language>> }]

FileNext ==
    \/ \E text \in workload.texts, pair \in workload.pairs : Translate(text, pair)
    \/ \E entries \in SrtInputs, pair \in workload.pairs :
          TranslateSrtFile(entries, pair[1])
    \/ \E d \in 1..MaxDirect, ok \in BOOLEAN : TranslateReturn(d, ok)
    \/ \E d \in 1..MaxDirect, ok \in BOOLEAN : TranslateBatchReturn(d, ok)

FileSpec == FileInit /\ [][FileNext]_vars

\* ---- a TranslationCache of capacity 0..MaxCacheSize driven directly by
\* get, put and clear, on three triples and two translations of each
CacheTexts == {"a", "b", "c"}
CachePairs == { <<"es", "auto">> }
CacheOutputs == {"x", "y"}

CacheInit ==
    /\ InitRest
    /\ max_size \in 0..MaxCacheSize
    /\ batch_size = 2
    /\ requests_per_minute = DefaultRequestsPerMinute
    /\ workload = [calls |-> 0, texts |-> CacheTexts, pairs |-> CachePairs]

CacheNext ==
    \/ \E text \in workload.texts, pair \in workload.pairs :
          CacheGetOp(text, pair)
    \/ \E text \in workload.texts, pair \in workload.pairs, out \in CacheOutputs :
          CachePutOp(Response([text |-> text, target |-> pair[1],
                               source |-> pair[2]], out, pair[1], pair[2]))
    \/ CacheClearOp

CacheSpec == CacheInit /\ [][CacheNext]_vars

(***************************************************************************)
(* AITranslator (ai_layer/translator.py): translate_srt_file and           *)
(* translate_batch create one task per entry; each task enters an          *)
(* asyncio.Semaphore(max_concurrent), calls the AI client inside it and    *)
(* leaves it, and asyncio.gather collects the results.                     *)
(*                                                                         *)
(* job.unit[i] is the task of the i-th entry:                              *)
(*   "created"   not yet run                                               *)
(*   "waiting"   suspended in semaphore.acquire()                          *)
(*   "in_flight" in self.client.translate_text                             *)
(*   "done"      returned; result is the entry it returned, fate is "ok"   *)
(*               or "failed"                                               *)
(* job.sem.woken holds the waiters whose future was set by a release and   *)
(* that have not resumed yet; job.completed lists the tasks in the order   *)
(* in which they finished.                                                 *)
(***************************************************************************)
NoEntry == [ index |-> 0, start_time |-> "", end_time |-> "", content |-> <<>> ]

\* the AI client's answer to the prompt built from entry.text ('\n'.join of
\* the content), split at '\n' again: a marker put in front of the text
ClientLines(content, target_language) ==
    IF content = <<>>
    THEN << "[" \o target_language \o "] " >>
    ELSE << "[" \o target_language \o "] " \o content[1] >> \o Tail(content)

TranslatedEntry(entry, target_language) ==
    [ index |-> entry.index, start_time |-> entry.start_time,
      end_time |-> entry.end_time,
      content |-> ClientLines(entry.content, target_language) ]

TranslatedAnyway(entry, target_language, ok) ==
    TranslatedEntry(entry, target_language)

\* translate_subtitle_entry's return value: the translated entry, or the
\* entry it was given when the prompt or the client raised
EntryOutcome(entry, target_language, ok) ==
    IF ok THEN TranslatedEntry(entry, target_language) ELSE entry

AlwaysFree(sem) == TRUE

\* not Semaphore.locked(): a permit is left and no waiter is ahead
SemFree(sem) ==
    /\ sem.value > 0
    /\ \A k \in 1..Len(sem.waiters) : sem.waiters[k] \in sem.woken

SemTake(sem) == [sem EXCEPT !.value = @ - 1]

SemEnqueue(sem, i) == [sem EXCEPT !.waiters = Append(@, i)]

\* Semaphore.release: the permit goes to the first waiter that was not
\* woken yet, or back to the counter
SemRelease(sem) ==
    LET sleeping == { k \in 1..Len(sem.waiters) :
                        sem.waiters[k] \notin sem.woken }
    IN  IF sleeping = {}
        THEN [sem EXCEPT !.value = @ + 1]
        ELSE LET k == CHOOSE k \in sleeping : \A m \in sleeping : k <= m
             IN  [sem EXCEPT !.woken = @ \cup { sem.waiters[k] }]

\* the woken waiter leaves the queue (acquire's finally clause)
SemLeaveQueue(sem, i) ==
    [sem EXCEPT !.waiters = SelectSeq(@, LAMBDA w : w # i),
                !.woken = @ \ { i }]

InFlight(jb) == { i \in 1..Len(jb.unit) : jb.unit[i].pc = "in_flight" }

UnitsDone(jb) == \A i \in 1..Len(jb.unit) : jb.unit[i].pc = "done"

\* the task returns: its result is recorded, the semaphore is released
UnitDone(jb, i, ok) ==
    [jb EXCEPT !.unit[i] = [pc |-> "done",
                            fate |-> IF ok THEN "ok" ELSE "failed",
                            result |-> EntryOutcome(jb.entries[i],
                                                    jb.target, ok)],
               !.sem = SemRelease(@),
               !.completed = Append(@, i)]

\* inside the semaphore: to_messages, then the call to the client
UnitEnter(jb, i, prompt_ok) ==
    IF prompt_ok
    THEN [jb EXCEPT !.unit[i].pc = "in_flight"]
    ELSE UnitDone(jb, i, FALSE)

InCompletionOrder(jb) ==
    [ k \in 1..Len(jb.completed) |-> jb.unit[jb.completed[k]].result ]

\* asyncio.gather (and tqdm's gather): the results in the order of the tasks
Gathered(jb) ==
    [ i \in 1..Len(jb.unit) |-> jb.unit[i].result ]

GateKinds == { "translate_srt_file", "translate_batch" }

GateStart(kind, entries, target_language, max_concurrent) ==
    /\ job.pc = "idle"
    /\ job' = [ kind |-> kind, K |-> max_concurrent, show_progress |-> FALSE,
                target |-> target_language, entries |-> entries,
                unit |-> [ i \in 1..Len(entries) |->
                            [pc |-> "created", fate |-> "",
                             result |-> NoEntry] ],
                sem |-> [value |-> max_concurrent, waiters |-> <<>>,
                         woken |-> {}],
                completed |-> <<>>, out |-> <<>>, pc |-> "running" ]
    /\ UNCHANGED << limVars, cfgVars, stopVars, queueVars, directVars,
                    cacheOpVars, rate_limiter, cache >>

\* the task's first step: async with semaphore
UnitBegin(i, prompt_ok) ==
    /\ job.kind \in GateKinds /\ job.pc = "running"
    /\ i \in 1..Len(job.unit) /\ job.unit[i].pc = "created"
    /\ job' = IF SemFree(job.sem)
              THEN UnitEnter([job EXCEPT !.sem = SemTake(@)], i, prompt_ok)
              ELSE [job EXCEPT !.sem = SemEnqueue(@, i),
                               !.unit[i].pc = "waiting"]
    /\ UNCHANGED << limVars, cfgVars, stopVars, queueVars, directVars,
                    cacheOpVars, rate_limiter, cache >>

\* a waiter whose future was set resumes inside the semaphore
UnitResume(i, prompt_ok) ==
    /\ job.kind \in GateKinds /\ job.pc = "running"
    /\ i \in job.sem.woken
    /\ job' = UnitEnter([job EXCEPT !.sem = SemLeaveQueue(@, i)], i, prompt_ok)
    /\ UNCHANGED << limVars, cfgVars, stopVars, queueVars, directVars,
                    cacheOpVars, rate_limiter, cache >>

\* the client returns (ok) or raises
UnitReturn(i, ok) ==
    /\ job.kind \in GateKinds /\ job.pc = "running"
    /\ i \in InFlight(job)
    /\ job' = UnitDone(job, i, ok)
    /\ UNCHANGED << limVars, cfgVars, stopVars, queueVars, directVars,
                    cacheOpVars, rate_limiter, cache >>

\* gather returns; translate_srt_file wraps the list in an SrtFile with the
\* input's file_path and encoding, translate_batch returns the list
GateFinish ==
    /\ job.kind \in GateKinds /\ job.pc = "running"
    /\ UnitsDone(job)
    /\ job' = [job EXCEPT !.out = Gathered(job), !.pc = "done"]
    /\ UNCHANGED << limVars, cfgVars, stopVars, queueVars, directVars,
                    cacheOpVars, rate_limiter, cache >>

GateInputs ==
    { [ i \in 1..n |-> Entry(i, IF i = 2 THEN << "a", "b" >> ELSE << "a" >>) ] :
        n \in 0..MaxEntries }

GateInit ==
    /\ max_size = 2 /\ batch_size = DefaultBatchSize
    /\ requests_per_minute = DefaultRequestsPerMinute
    /\ workload = [calls |-> 0, texts |-> {"a", "b"}, pairs |-> {<<"es", "auto">>}]
    /\ InitRest

GateNext ==
    \/ \E kind \in GateKinds, entries \in GateInputs,
          max_concurrent \in 1..MaxConcurrent :
            GateStart(kind, entries, "es", max_concurrent)
    \/ \E i \in 1..MaxEntries, prompt_ok \in BOOLEAN : UnitBegin(i, prompt_ok)
    \/ \E i \in 1..MaxEntries, prompt_ok \in BOOLEAN : UnitResume(i, prompt_ok)
    \/ \E i \in 1..MaxEntries, ok \in BOOLEAN : UnitReturn(i, ok)
    \/ GateFinish

GateSpec == GateInit /\ [][GateNext]_vars

\* every task keeps running: the event loop schedules each ready task and
\* the client answers or raises
GateLiveSpec ==
    /\ GateSpec
    /\ WF_vars(\E i \in 1..MaxEntries, prompt_ok \in BOOLEAN :
                    UnitBegin(i, prompt_ok))
    /\ WF_vars(\E i \in 1..MaxEntries, prompt_ok \in BOOLEAN :
                    UnitResume(i, prompt_ok))
    /\ WF_vars(\E i \in 1..MaxEntries, ok \in BOOLEAN : UnitReturn(i, ok))
    /\ WF_vars(GateFinish)

(***************************************************************************)
(* SRTTranslator._translate_entries_async (main.py): one translate_entry   *)
(* coroutine per entry, each gathering one translate_async call per        *)
(* content line.  With show_progress the results are taken from            *)
(* asyncio.as_completed and then sorted by index, otherwise they are       *)
(* gathered.  job.unit[i].lines[j] is "in_flight" or "done" for the j-th   *)
(* line of the i-th entry; a call that raises makes the whole function     *)
(* raise (job.pc = "raised").                                              *)
(***************************************************************************)
\* the translator's output for one line
LineOutput(line, target_language) == "[" \o target_language \o "] " \o line

\* translate_entry's return value: gather keeps the order of the lines
LinesTranslated(entry, target_language) ==
    [ index |-> entry.index, start_time |-> entry.start_time,
      end_time |-> entry.end_time,
      content |-> [ j \in 1..Len(entry.content) |->
                      LineOutput(entry.content[j], target_language) ] ]

\* list.sort(key=lambda e: e.index): a stable sort, by insertion
RECURSIVE InsertByIndex(_, _)
InsertByIndex(sorted, e) ==
    IF sorted = <<>> THEN << e >>
    ELSE IF sorted[Len(sorted)].index <= e.index THEN Append(sorted, e)
    ELSE Append(InsertByIndex(SubSeq(sorted, 1, Len(sorted) - 1), e),
                sorted[Len(sorted)])

RECURSIVE SortByIndex(_)
SortByIndex(seq) ==
    IF seq = <<>> THEN <<>>
    ELSE InsertByIndex(SortByIndex(SubSeq(seq, 1, Len(seq) - 1)),
                       seq[Len(seq)])

\* the results in the order in which as_completed yields them
AsCompleted(jb) ==
    [ k \in 1..Len(jb.completed) |-> jb.unit[jb.completed[k]].result ]

EntriesResult(jb) ==
    IF jb.show_progress THEN SortByIndex(AsCompleted(jb)) ELSE Gathered(jb)

EntriesStart(entries, target_language, show_progress) ==
    /\ job.pc = "idle"
    /\ job' = [ kind |-> "translate_entries", K |-> 0,
                show_progress |-> show_progress,
                target |-> target_language, entries |-> entries,
                unit |-> [ i \in 1..Len(entries) |->
                            [pc |-> "created", fate |-> "", lines |-> <<>>,
                             result |-> NoEntry] ],
                sem |-> NoJob.sem,
                completed |-> <<>>, out |-> <<>>, pc |-> "running" ]
    /\ UNCHANGED << limVars, cfgVars, stopVars, queueVars, directVars,
                    cacheOpVars, rate_limiter, cache >>

\* translate_entry is done when its gather is
EntryProgress(jb, i) ==
    IF \A j \in 1..Len(jb.unit[i].lines) : jb.unit[i].lines[j] = "done"
    THEN [jb EXCEPT !.unit[i].pc = "done",
                    !.unit[i].fate = "ok",
                    !.unit[i].result = LinesTranslated(jb.entries[i], jb.target),
                    !.completed = Append(@, i)]
    ELSE jb

\* translate_entry starts: one translate_async call per content line
EntryBegin(i) ==
    /\ job.kind = "translate_entries" /\ job.pc = "running"
    /\ i \in 1..Len(job.unit) /\ job.unit[i].pc = "created"
    /\ job' = EntryProgress(
                [job EXCEPT !.unit[i].pc = "running",
                            !.unit[i].lines =
                                [ j \in 1..Len(job.entries[i].content) |->
                                    "in_flight" ]], i)
    /\ UNCHANGED << limVars, cfgVars, stopVars, queueVars, directVars,
                    cacheOpVars, rate_limiter, cache >>

\* one translate_async call returns (ok) or raises
LineReturn(i, j, ok) ==
    /\ job.kind = "translate_entries" /\ job.pc = "running"
    /\ i \in 1..Len(job.unit) /\ job.unit[i].pc = "running"
    /\ j \in 1..Len(job.unit[i].lines) /\ job.unit[i].lines[j] = "in_flight"
    /\ job' = IF ok
              THEN EntryProgress([job EXCEPT !.unit[i].lines[j] = "done"], i)
              ELSE [job EXCEPT !.unit[i].pc = "done",
                               !.unit[i].fate = "failed",
                               !.pc = "raised"]
    /\ UNCHANGED << limVars, cfgVars, stopVars, queueVars, directVars,
                    cacheOpVars, rate_limiter, cache >>

EntriesFinish ==
    /\ job.kind = "translate_entries" /\ job.pc = "running"
    /\ UnitsDone(job)
    /\ job' = [job EXCEPT !.out = EntriesResult(job), !.pc = "done"]
    /\ UNCHANGED << limVars, cfgVars, stopVars, queueVars, directVars,
                    cacheOpVars, rate_limiter, cache >>

\* the entries of a file as the parser reads them: the index is the number
\* written in the file
IndexLists ==
    { idx \in UNION { [1..n -> 1..MaxEntries] : n \in 0..MaxEntries } :
        \/ \A k \in DOMAIN idx : idx[k] = k
        \/ \A k \in DOMAIN idx : idx[k] = Len(idx) + 1 - k
        \/ \A k \in DOMAIN idx : idx[k] = 1 }

EntriesInputs ==
    { [ k \in 1..Len(idx) |->
          [ index |-> idx[k], start_time |-> "00:00:0" \o ToString(k) \o ",000",
            end_time |-> "00:00:0" \o ToString(k) \o ",900",
            content |-> IF k = 1
                        THEN [ j \in 1..MaxLines |-> "l" \o ToString(j) ]
                        ELSE << "c" >> ] ] : idx \in IndexLists }

EntriesInit ==
    /\ max_size = 2 /\ batch_size = DefaultBatchSize
    /\ requests_per_minute = DefaultRequestsPerMinute
    /\ workload = [calls |-> 0, texts |-> {"c"}, pairs |-> {<<"es", "auto">>}]
    /\ InitRest

EntriesNext ==
    \/ \E entries \in EntriesInputs, show_progress \in BOOLEAN :
            EntriesStart(entries, "es", show_progress)
    \/ \E i \in 1..MaxEntries : EntryBegin(i)
    \/ \E i \in 1..MaxEntries, j \in 1..MaxLines, ok \in BOOLEAN :
            LineReturn(i, j, ok)
    \/ EntriesFinish

EntriesSpec == EntriesInit /\ [][EntriesNext]_vars

\* C1: in every rolling 60-second window (half-open, as the code prunes with
\* now - t < 60) at most requests_per_minute acquire() grants complete: at any
\* moment the grants of the trailing 60 seconds number at most the limit.
C1_RateBound ==
    Len(Prune(rate_limiter.request_times)) <= requests_per_minute

\* the limit is reached, a caller sleeps inside acquire() and another one
\* waits for the lock
C1_Witness ==
    /\ Len(Prune(rate_limiter.request_times)) = requests_per_minute
    /\ rate_limiter.holder # 0 /\ rate_limiter.entered
    /\ rate_limiter.waiters # <<>>

\* C2: when stop() is called, every translate_queued future that is unresolved
\* at that moment (item still queued, or already taken into a batch that is
\* being processed) is resolved with the "stopped" failure: when stop()
\* returns, none of them is pending and each holds that failure result.
C2_StopResolvesPending ==
    [][ (stop_pc = "await" /\ stop_pc' = "idle") =>
          \A k \in stop_snap :
              /\ calls'[k].fut = "done"
              /\ calls'[k].result = ErrorResponse(ReqOf(calls, k), StoppedText) ]_vars

C4_ResolvedOnce ==
    \A k \in 1..Len(calls) : calls[k].nres <= 1

\* one future resolved by a service call and another one by the stop handler
C4_Witness ==
    \E k, j \in 1..Len(calls) :
        /\ calls[k].fut = "done" /\ calls[k].served = "ok" /\ calls[k].nres = 1
        /\ calls[j].fut = "done" /\ calls[j].nres = 1
        /\ calls[j].result.error_message = StoppedText

\* C5: at most one batch-processor task is alive, and while one is alive
\* self.batch_task refers to it.
C5_SingleProcessor ==
    /\ Cardinality({ t \in Tasks : Alive(t) }) <= 1
    /\ \A t \in Tasks : Alive(t) => batch_task = t

\* C6: with no stop() and every service call returning or failing, every
\* translate_queued call eventually gets its result, also when its item
\* arrived while a batch was being processed, and the processor is suspended
\* on the event only while the queue is empty.
C6_NoLostWakeup ==
    /\ \A k \in 1..MaxCalls :
          (Len(calls) >= k /\ calls[k].fut = "pending")
              ~> (Len(calls) >= k /\ calls[k].fut # "pending")
    /\ [](\A t \in Tasks :
            (task[t].pc = "idle" /\ ~task[t].wake) => batch_queue = <<>>)

\* the second request arrived while the batch of the first is at the
\* service: it is queued and the event is set for the next cycle
C6_Witness ==
    /\ batch_queue = << 2 >> /\ batch_event
    /\ \E t \in Tasks : /\ task[t].pc = "service"
                         /\ task[t].batch = << 1 >>

\* C7: when the service call of a partition fails, every future of the
\* partition holds the failure result with the error's text; a partition
\* whose own call succeeded holds its own translations, whatever happened to
\* the other partitions of the cycle; the processor ends only by stop().
C7_FailureIsolation ==
    /\ \A k \in 1..Len(calls) :
          /\ calls[k].served = "failed" =>
                /\ calls[k].fut = "done"
                /\ calls[k].result = ErrorResponse(ReqOf(calls, k), ServiceErrorText)
          /\ calls[k].served = "ok" =>
                /\ calls[k].fut = "done"
                /\ calls[k].result.success
                /\ calls[k].result.source_text = calls[k].text
                /\ calls[k].result.translated_text =
                      ServiceOutput(<< calls[k].text >>, calls[k].target)[1]
    /\ \A t \in Tasks : task[t].pc = "done" => task[t].cancel

\* one cycle took two requests with different pairs; the call for the first
\* pair failed and its future holds the error, the processor goes on with the
\* call for the second pair
C7_Witness ==
    \E t \in Tasks :
        /\ task[t].batch = << 1, 2 >> /\ task[t].todo = << << 2 >> >>
        /\ task[t].pc = "service" /\ ~task[t].cancel
        /\ calls[1].served = "failed"
        /\ calls[1].result.error_message = ServiceErrorText
        /\ calls[2].fut = "pending"

\* C8: every service call of the batch processor carries the texts of
\* requests that all have the same (target_language, source_language).
C8_GroupingPurity ==
    \A t \in Tasks :
        task[t].pc = "service" =>
            LET ids == Head(task[t].todo)
            IN  /\ Len(task[t].call.texts) = Len(ids)
                /\ \A i \in 1..Len(ids) :
                      /\ task[t].call.texts[i] = calls[ids[i]].text
                      /\ task[t].call.target = calls[ids[i]].target
                      /\ calls[ids[i]].target = calls[ids[1]].target
                      /\ calls[ids[i]].source = calls[ids[1]].source

\* a cycle that took two requests with different pairs has a call in flight
\* that carries one of them
C8_Witness ==
    \E t \in Tasks :
        /\ task[t].pc = "service"
        /\ Len(task[t].batch) = 2
        /\ calls[task[t].batch[1]].source # calls[task[t].batch[2]].source
        /\ Len(task[t].call.texts) = 1

\* C9: a processing cycle takes exactly min(batch_size, queue length) items
\* from the head of the queue, in arrival order, and leaves the rest in order;
\* with the default batch_size of 10, 12 requests of one language pair that
\* are all queued before the first drain go out as one service call of 10
\* texts and then, in a second cycle, one call of the remaining 2.
C9_BatchSlicing ==
    /\ [][ \A t \in Tasks :
              (task[t].pc = "debounce" /\ task'[t].pc \in {"acquire", "service"}) =>
                  LET n == Min(batch_size, Len(batch_queue))
                  IN  /\ task'[t].batch = SubSeq(batch_queue, 1, n)
                      /\ batch_queue' = SubSeq(batch_queue, n + 1, Len(batch_queue)) ]_vars
    /\ [](\A t \in Tasks :
            (task[t].pc = "service" /\ batch_size = DefaultBatchSize) =>
                /\ task[t].seen = ScenarioCalls =>
                      /\ task[t].batch = [i \in 1..DefaultBatchSize |-> i]
                      /\ Len(task[t].todo) = 1
                      /\ Len(task[t].call.texts) = DefaultBatchSize
                      /\ batch_queue = [i \in 1..2 |-> DefaultBatchSize + i]
                /\ (task[t].seen = 2 /\ Head(task[t].batch) = DefaultBatchSize + 1) =>
                      /\ task[t].batch = [i \in 1..2 |-> DefaultBatchSize + i]
                      /\ Len(task[t].todo) = 1
                      /\ Len(task[t].call.texts) = 2
                      /\ batch_queue = <<>>)

\* the first cycle was served with 10 texts; the call of the second cycle,
\* with the 2 texts that were left in the queue, is in flight
C9_Witness ==
    /\ batch_size = DefaultBatchSize
    /\ Len(calls) = ScenarioCalls
    /\ \A k \in 1..DefaultBatchSize : calls[k].served = "ok"
    /\ \E t \in Tasks : /\ task[t].pc = "service"
                         /\ task[t].seen = 2
                         /\ Len(task[t].call.texts) = 2

\* C10: a request that arrives at an idle processor (empty queue, processor
\* waiting), with no further arrival, is not taken from the queue before
\* batch_wait_time has elapsed since it arrived.
C10_Debounce ==
    [][ \A t \in Tasks :
          ( /\ task[t].pc = "debounce"
            /\ task'[t].pc \in {"acquire", "service"}
            /\ since_arrival >= 0 ) =>
              since_arrival >= batch_wait_time ]_vars

\* C11: when the service call of a partition returns, the k-th text of the
\* call was the text of the k-th request of the partition, and the future of
\* that request holds the result built from the k-th translated text, with
\* the request's source_text, target_language and source_language.
C11_PartitionOrder ==
    [][ \A t \in Tasks :
          ( /\ task[t].pc = "service"
            /\ task'[t].pc # "done"
            /\ task'[t].todo # task[t].todo
            /\ calls'[Head(task[t].todo)[1]].served = "ok" ) =>
              LET ids == Head(task[t].todo)
                  outs == ServiceOutput(task[t].call.texts, task[t].call.target)
              IN  \A k \in 1..Len(ids) :
                      /\ task[t].call.texts[k] = calls[ids[k]].text
                      /\ calls'[ids[k]].fut = "done"
                      /\ calls'[ids[k]].result.success
                      /\ calls'[ids[k]].result.translated_text = outs[k]
                      /\ calls'[ids[k]].result.source_text = calls[ids[k]].text
                      /\ calls'[ids[k]].result.target_language = calls[ids[k]].target
                      /\ calls'[ids[k]].result.source_language = calls[ids[k]].source ]_vars

\* a partition of two requests with different texts was served: each future
\* holds the translation of its own text
C11_Witness ==
    /\ Len(calls) = 2
    /\ calls[1].text # calls[2].text
    /\ calls[1].target = calls[2].target /\ calls[1].source = calls[2].source
    /\ calls[1].served = "ok" /\ calls[2].served = "ok"
    /\ calls[1].result.translated_text # calls[2].result.translated_text
    /\ calls[2].result.source_text = calls[2].text

\* C12: translate_queued for a triple that is in the cache returns the cached
\* result of that triple at once (the future is resolved on return) and
\* leaves the queue, the batch event, the rate limiter, the processor tasks
\* and the other futures as they were.
C12_CacheHitFrame ==
    [][ ( /\ Len(calls') = Len(calls) + 1
          /\ \E i \in 1..Len(cache) :
                cache[i].key = _generate_key(calls'[Len(calls')].text,
                                             calls'[Len(calls')].target,
                                             calls'[Len(calls')].source) ) =>
            LET k == Len(calls')
                i == CHOOSE j \in 1..Len(cache) :
                        cache[j].key = _generate_key(calls'[k].text,
                                                     calls'[k].target,
                                                     calls'[k].source)
            IN  /\ calls'[k].fut = "hit"
                /\ calls'[k].result = cache[i].value
                /\ calls'[k].result.success
                /\ batch_queue' = batch_queue
                /\ batch_event' = batch_event
                /\ rate_limiter' = rate_limiter
                /\ batch_task' = batch_task
                /\ task' = task
                /\ \A j \in 1..Len(calls) : calls'[j] = calls[j] ]_vars

\* a cached triple was requested after stop() had ended the processor: the
\* caller has the result and no processor was started
C12_Witness ==
    /\ Len(calls) = 2
    /\ calls[2].fut = "hit"
    /\ calls[2].result.success
    /\ batch_task = 0
    /\ \A t \in Tasks : ~Alive(t)
    /\ batch_queue = <<>>

\* C13: translate_queued for a triple that is not in the cache appends
\* exactly one item, its own, to the tail of the queue and leaves a live
\* processor task in batch_task, a new one when no processor was alive; and
\* the request is eventually resolved.
C13_MissQueuedAndResolved ==
    /\ [][ ( /\ Len(calls') = Len(calls) + 1
              /\ \A i \in 1..Len(cache) :
                    cache[i].key # _generate_key(calls'[Len(calls')].text,
                                                 calls'[Len(calls')].target,
                                                 calls'[Len(calls')].source) ) =>
                /\ batch_queue' = Append(batch_queue, Len(calls'))
                /\ batch_task' # 0
                /\ task'[batch_task'].pc \notin {"none", "done"}
                /\ ((\A t \in Tasks : ~Alive(t)) =>
                        (/\ task[batch_task'].pc = "none"
                         /\ task'[batch_task'].pc = "new")) ]_vars
    /\ \A k \in 1..MaxCalls :
          (Len(calls) >= k /\ calls[k].fut = "pending")
              ~> (Len(calls) >= k /\ calls[k].fut \in {"done", "hit"})

C15_StopIdempotent ==
    /\ [][ /\ ((stop_pc = "idle" /\ stop_pc' = "await") =>
                  (batch_task # 0 /\ Alive(batch_task)))
            /\ ((stop_pc = "await" /\ stop_pc' = "idle") =>
                  ~StopActs(task', batch_task')) ]_vars
    /\ []((\A t \in Tasks : ~Alive(t)) => ~StopActs(task, batch_task))

\* a stop() has returned and no processor is alive: the next stop() finds
\* batch_task empty
C15_Witness ==
    /\ stops >= 1
    /\ stop_pc = "idle"
    /\ batch_task = 0
    /\ \A t \in Tasks : ~Alive(t)
    /\ ~StopActs(task, batch_task)

\* C16 (as stated): two successive translate calls for one triple issue at
\* most one service call in total and the second returns what the first
\* returned.
C16_TwoCallsOneService ==
    \A d \in 1..(Len(direct) - 1) :
        ( /\ direct[d].kind = "translate" /\ direct[d + 1].kind = "translate"
          /\ direct[d].texts = direct[d + 1].texts
          /\ direct[d].target = direct[d + 1].target
          /\ direct[d].source = direct[d + 1].source
          /\ direct[d + 1].alone
          /\ direct[d].pc = "done" /\ direct[d + 1].pc = "done" ) =>
            /\ direct[d].svc + direct[d + 1].svc <= 1
            /\ direct[d + 1].result = direct[d].result

\* C16 (amended): when the first of two successive translate calls for one
\* triple returned a successful result, the two calls issue at most one
\* service call in total and the second returns what the first returned.
C16_SecondFromCache ==
    \A d \in 1..(Len(direct) - 1) :
        ( /\ direct[d].kind = "translate" /\ direct[d + 1].kind = "translate"
          /\ direct[d].texts = direct[d + 1].texts
          /\ direct[d].target = direct[d + 1].target
          /\ direct[d].source = direct[d + 1].source
          /\ direct[d + 1].alone
          /\ direct[d].pc = "done" /\ direct[d + 1].pc = "done"
          /\ direct[d].result[1].success ) =>
            /\ direct[d].svc + direct[d + 1].svc <= 1
            /\ direct[d + 1].result = direct[d].result

\* the first call reached the service and succeeded, the second call for the
\* same triple was answered from the cache
C16_Witness ==
    /\ Len(direct) = 2
    /\ direct[1].kind = "translate" /\ direct[2].kind = "translate"
    /\ direct[1].texts = direct[2].texts
    /\ direct[1].target = direct[2].target
    /\ direct[1].source = direct[2].source
    /\ direct[1].served = "ok" /\ direct[1].svc = 1
    /\ direct[2].alone /\ direct[2].served = "hit" /\ direct[2].svc = 0
    /\ direct[2].result = direct[1].result

\* C17: when the service raises during translate, the call returns a result
\* with success false, an empty translated_text, the text of the exception as
\* error_message and the source_text, target_language and source_language
\* of the call.
C17_TranslateFailure ==
    \A d \in 1..Len(direct) :
        (direct[d].kind = "translate" /\ direct[d].served = "failed") =>
            /\ direct[d].pc = "done"
            /\ Len(direct[d].result) = 1
            /\ ~direct[d].result[1].success
            /\ direct[d].result[1].translated_text = ""
            /\ direct[d].result[1].error_message = ServiceErrorText
            /\ direct[d].result[1].source_text = direct[d].texts[1]
            /\ direct[d].result[1].target_language = direct[d].target
            /\ direct[d].result[1].source_language = direct[d].source

\* the second of two translate calls, with a named source language, reached
\* the service and the service raised
C17_Witness ==
    /\ Len(direct) = 2
    /\ direct[2].kind = "translate"
    /\ direct[2].served = "failed"
    /\ direct[2].svc = 1
    /\ direct[2].source = "en"
    /\ ~direct[2].result[1].success

\* C18: translate_batch returns one result per text, the i-th with
\* source_text equal to the i-th text.
C18_BatchOrder ==
    \A d \in 1..Len(direct) :
        (direct[d].kind = "translate_batch" /\ direct[d].pc = "done") =>
            /\ Len(direct[d].result) = Len(direct[d].texts)
            /\ \A i \in 1..Len(direct[d].texts) :
                  direct[d].result[i].source_text = direct[d].texts[i]

\* C19: when the service call of translate_batch raises, the call returns
\* one result per text; every uncached position holds a failure (success
\* false, empty translated_text, the text of the exception) and every cached
\* position holds a successful result stored under the key of its triple.
C19_BatchFailure ==
    \A d \in 1..Len(direct) :
        (direct[d].kind = "translate_batch" /\ direct[d].served = "failed") =>
            /\ direct[d].pc = "done"
            /\ Len(direct[d].result) = Len(direct[d].texts)
            /\ \A i \in 1..Len(direct[d].texts) :
                  IF i \in Range(direct[d].uncached)
                  THEN /\ ~direct[d].result[i].success
                       /\ direct[d].result[i].translated_text = ""
                       /\ direct[d].result[i].error_message = ServiceErrorText
                  ELSE /\ direct[d].result[i].success
                       /\ direct[d].result[i].error_message = NoneText
                       /\ _generate_key(direct[d].result[i].source_text,
                                        direct[d].result[i].target_language,
                                        direct[d].result[i].source_language)
                            = _generate_key(direct[d].texts[i], direct[d].target,
                                            direct[d].source)

\* a failed translate_batch of three texts, the middle one cached
C19_Witness ==
    /\ Len(direct) = 2
    /\ direct[2].kind = "translate_batch"
    /\ direct[2].served = "failed"
    /\ Len(direct[2].texts) = 3
    /\ direct[2].uncached = <<1, 3>>
    /\ direct[2].result[2].success
    /\ ~direct[2].result[1].success /\ ~direct[2].result[3].success

\* C20: translate_srt_file returns as many entries as the input has, the
\* i-th with as many content lines as the i-th input entry.
C20_FileShape ==
    \A d \in 1..Len(direct) :
        (direct[d].kind = "translate_srt_file" /\ direct[d].pc = "done") =>
            /\ Len(direct[d].file) = Len(direct[d].entries)
            /\ \A i \in 1..Len(direct[d].entries) :
                  Len(direct[d].file[i].content)
                      = Len(direct[d].entries[i].content)

\* a file of three entries (two lines, none, one line) whose line "b" was
\* cached and whose service call failed
C20_Witness ==
    /\ Len(direct) = 2
    /\ direct[2].kind = "translate_srt_file"
    /\ direct[2].served = "failed"
    /\ Len(direct[2].entries) = 3
    /\ direct[2].uncached = <<1, 3>>
    /\ Len(direct[2].file) = 3
    /\ Len(direct[2].file[1].content) = 2
    /\ direct[2].file[2].content = <<>>

\* C21: in the file returned by translate_srt_file, every content line whose
\* translation failed is present and holds the original text of that line.
C21_FailedLineKeepsOriginal ==
    \A d \in 1..Len(direct) :
        (direct[d].kind = "translate_srt_file" /\ direct[d].pc = "done") =>
            \A k \in 1..Len(direct[d].texts) :
                ( /\ k <= Len(direct[d].result)
                  /\ ~direct[d].result[k].success ) =>
                    /\ k <= Len(ContentLines(direct[d].file))
                    /\ ContentLines(direct[d].file)[k] = direct[d].texts[k]

\* C22: a TranslationCache never stores more entries than its max_size,
\* whatever non-negative max_size it was built with.
C22_CacheBound == Len(cache) <= max_size

\* C23: when put stores a key that is not in a full cache (max_size >= 1),
\* exactly one entry leaves the cache, the one whose access time is the
\* oldest; the other entries stay as they were and the cache holds exactly
\* max_size entries afterwards.
C23_EvictsOldest ==
    [][ ( /\ max_size >= 1
          /\ Len(cache) >= max_size
          /\ Keys(cache') \ Keys(cache) # {} ) =>
            LET old == CHOOSE i \in 1..Len(cache) :
                          \A j \in 1..Len(cache) : cache[i].time <= cache[j].time
            IN  /\ \A j \in 1..Len(cache) :
                      j # old => cache[j].time > cache[old].time
                /\ Keys(cache) \ Keys(cache') = {cache[old].key}
                /\ Cardinality(Keys(cache') \ Keys(cache)) = 1
                /\ Len(cache') = max_size
                /\ \A j \in 1..Len(cache) : j # old =>
                      \E i \in 1..Len(cache') :
                          /\ cache'[i].key = cache[j].key
                          /\ cache'[i].value = cache[j].value ]_vars

\* a put into a full cache of two has evicted the entry stored second: the
\* entry stored before it had been accessed since and is still there
C23_Witness ==
    /\ max_size = 2
    /\ cache_op.op = "put" /\ ~cache_op.hit
    /\ cache_op.at = 2
    /\ Len(cache) = 2
    /\ cache[2].key = cache_op.key
    /\ cache_op.evicted # {}

\* C24: get for a triple that is not stored returns None and leaves the
\* stored entries and their access times as they were.
C24_MissHasNoEffect ==
    /\ [][ ( /\ cache_op' # cache_op
             /\ cache_op'.op = "get"
             /\ ~cache_op'.hit ) => cache' = cache ]_vars
    /\ [](\A text \in CacheTexts, pair \in CachePairs :
            _generate_key(text, pair[1], pair[2]) \notin Keys(cache) =>
                CacheGet(cache, text, pair[1], pair[2])
                    = [cache |-> cache, value |-> NoResult])

\* a get that missed on a cache holding two other entries
C24_Witness ==
    /\ cache_op.op = "get" /\ ~cache_op.hit
    /\ Len(cache) = 2
    /\ cache_op.key \notin Keys(cache)


\* C25: in AITranslator.translate_srt_file and translate_batch with
\* max_concurrent = K, at no time are more than K calls to the AI client
\* started and not yet finished.
C25_AtMostKInFlight ==
    job.kind \in GateKinds => Cardinality(InFlight(job)) <= job.K

\* K = 2 and three entries: two calls are in flight and the third task waits
\* in the semaphore
C25_Witness ==
    /\ job.kind \in GateKinds /\ job.K = 2
    /\ Cardinality(InFlight(job)) = 2
    /\ \E i \in 1..Len(job.unit) : job.unit[i].pc = "waiting"

\* C26: when the client fails for some entries the job still completes and
\* returns N entries; each failed entry is the original entry unchanged, and
\* every other entry is the translation it gets when nothing fails.
C26_FailureIsLocal ==
    /\ [](job.kind \in GateKinds /\ job.pc = "done" =>
            /\ Len(job.out) = Len(job.entries)
            /\ \A i \in 1..Len(job.entries) :
                  job.out[i] = IF job.unit[i].fate = "failed"
                               THEN job.entries[i]
                               ELSE TranslatedEntry(job.entries[i], job.target))
    /\ (job.kind \in GateKinds /\ job.pc = "running") ~> (job.pc = "done")

\* a finished job of three entries in which the second one failed and the
\* other two were translated
C26_Witness ==
    /\ job.kind \in GateKinds /\ job.pc = "done"
    /\ Len(job.entries) = 3
    /\ job.unit[2].fate = "failed" /\ job.out[2] = job.entries[2]
    /\ job.unit[1].fate = "ok" /\ job.unit[3].fate = "ok"
    /\ job.out[1] # job.entries[1]

\* C27: the i-th output entry is the outcome of the i-th input entry, with
\* its index, start_time and end_time, for every order in which the
\* translations complete.
C27_OutputInInputOrder ==
    job.kind \in GateKinds /\ job.pc = "done" =>
        /\ Len(job.out) = Len(job.entries)
        /\ \A i \in 1..Len(job.entries) :
              /\ job.out[i] = job.unit[i].result
              /\ job.out[i].index = job.entries[i].index
              /\ job.out[i].start_time = job.entries[i].start_time
              /\ job.out[i].end_time = job.entries[i].end_time

\* a finished job whose translations completed in the order 3, 1, 2
C27_Witness ==
    /\ job.kind \in GateKinds /\ job.pc = "done"
    /\ job.completed = << 3, 1, 2 >>
    /\ job.out[1].index = 1 /\ job.out[3].index = 3


\* C28: SRTTranslator._translate_entries_async returns one entry per input
\* entry in input order, each with the input entry's index and times and
\* with every content line replaced by the translator's output for that
\* line in the same line order, for every completion order and for either
\* setting of show_progress.
C28_EntriesInInputOrder ==
    job.kind = "translate_entries" /\ job.pc = "done" =>
        /\ Len(job.out) = Len(job.entries)
        /\ \A i \in 1..Len(job.entries) :
              /\ job.out[i].index = job.entries[i].index
              /\ job.out[i].start_time = job.entries[i].start_time
              /\ job.out[i].end_time = job.entries[i].end_time
              /\ Len(job.out[i].content) = Len(job.entries[i].content)
              /\ \A j \in 1..Len(job.entries[i].content) :
                    job.out[i].content[j] =
                        LineOutput(job.entries[i].content[j], job.target)


\* C29: with requests_per_minute >= 1 every acquire() call eventually
\* returns, however many callers contend; the wait is a sleep of at most
\* the window, computed from a non-empty list of request times.
C29_AcquireReturns ==
    /\ \A c \in Callers :
          InAcquire(rate_limiter, c) ~> ~InAcquire(rate_limiter, c)
    /\ [](rate_limiter.entered =>
            /\ requests_per_minute >= 1
            /\ rate_limiter.request_times # <<>>
            /\ rate_limiter.sleep_left <= Window)

\* the limit is reached: one caller sleeps inside acquire() and the other
\* callers queue for the lock behind it
C29_Witness ==
    /\ rate_limiter.holder # 0 /\ rate_limiter.entered
    /\ rate_limiter.sleep_left > 0
    /\ Len(rate_limiter.request_times) >= requests_per_minute
    /\ Len(rate_limiter.waiters) = MaxCallers - 1


\* C30: every call made to the service is preceded by exactly one acquire()
\* grant of its own, in the step that issues it: one per cache-missing
\* translate, one per translate_batch with an uncached text, one per
\* partition in the batch processor, never one per request; so the service
\* calls never outnumber the grants.
C30_OneGrantPerServiceCall ==
    /\ [][LET GrantBy(c) ==
                /\ rate_limiter.holder \in {0, c}
                /\ ~InAcquire(rate_limiter', c)
                /\ rate_limiter'.request_times \in
                      { Append(rate_limiter.request_times, 0),
                        Append(Prune(rate_limiter.request_times), 0) }
              TaskIssues(t) ==
                /\ task'[t].pc = "service"
                /\ task[t].pc # "service" \/ task'[t].todo # task[t].todo
              DirectIssues(d) ==
                /\ d <= Len(direct') /\ direct'[d].pc = "service"
                /\ d > Len(direct) \/ direct[d].pc # "service"
          IN  /\ \A t \in Tasks : TaskIssues(t) => GrantBy(t)
              /\ \A d \in 1..MaxDirect : DirectIssues(d) => GrantBy(DirectId(d))
              /\ Cardinality({ t \in Tasks : TaskIssues(t) }) +
                 Cardinality({ d \in 1..MaxDirect : DirectIssues(d) }) <= 1
        ]_vars
    /\ []( /\ \A d \in 1..Len(direct) :
               /\ direct[d].svc <= 1
               /\ direct[d].pc = "service" => direct[d].svc = 1
           /\ \A t \in Tasks : task[t].pc = "service" =>
                 Len(task[t].call.texts) = Len(Head(task[t].todo)))

\* the processor calls the service once for a partition of two requests
\* while a direct call has made its one service call, and the limiter holds
\* the two grants, the second one given after a wait
C30_Witness ==
    /\ \E t \in Tasks : /\ task[t].pc = "service"
                         /\ Len(task[t].call.texts) = 2
    /\ \E d \in 1..Len(direct) : direct[d].svc = 1
    /\ Len(rate_limiter.request_times) = 2


\* C31: a translate call that hits the cache, and a translate_batch call
\* whose texts are all cached, perform no acquire() and no service call: the
\* call returns at once, the rate limiter is left as it was, and the cache
\* keeps its keys and values, the entries that were hit becoming the most
\* recently used ones and the others keeping their order of use.
C31_HitLeavesLimiterAlone ==
    [][LET d == Len(direct')
           inv == direct'[d]
           keys == { _generate_key(inv.texts[i], inv.target, inv.source) :
                       i \in 1..Len(inv.texts) }
       IN  (/\ Len(direct') = Len(direct) + 1
            /\ inv.kind \in {"translate", "translate_batch"}
            /\ keys \subseteq Keys(cache))
           =>
           /\ rate_limiter' = rate_limiter
           /\ inv.pc = "done" /\ inv.svc = 0
           /\ Len(inv.result) = Len(inv.texts)
           /\ \A i \in 1..Len(inv.texts) :
                 /\ inv.result[i].success
                 /\ inv.result[i].source_text = inv.texts[i]
           /\ Len(cache') = Len(cache)
           /\ \A j \in 1..Len(cache) :
                 /\ cache'[j].key = cache[j].key
                 /\ cache'[j].value = cache[j].value
           /\ \A j, k \in 1..Len(cache) :
                 /\ (cache[j].key \notin keys /\ cache[k].key \in keys)
                        => cache'[j].time < cache'[k].time
                 /\ (cache[j].key \notin keys /\ cache[k].key \notin keys)
                        => (cache'[j].time < cache'[k].time
                              <=> cache[j].time < cache[k].time)
      ]_vars

\* translate("a") answered from the cache while the limiter holds the
\* timestamp of the translate_batch call that stored "a" and then "b": no
\* new timestamp, and "a" is now the most recently used entry
C31_Witness ==
    /\ Len(direct) = 2
    /\ direct[1].kind = "translate_batch" /\ direct[1].served = "ok"
    /\ direct[1].texts = << "a", "b" >>
    /\ direct[2].kind = "translate" /\ direct[2].served = "hit"
    /\ direct[2].svc = 0 /\ direct[2].pc = "done"
    /\ Len(rate_limiter.request_times) = 1
    /\ Len(cache) = 2 /\ cache[1].time > cache[2].time


\* C32: a failed service call is never retried: one invocation of translate
\* or translate_batch issues at most one service call and does nothing more
\* once it has returned; the requests of a partition are sent to the service
\* at most once, and the partition is dropped from the cycle when its call
\* returns, whether it succeeded or failed.
C32_NoRetry ==
    /\ [][/\ \A d \in 1..Len(direct) :
               direct[d].pc = "done" => direct'[d] = direct[d]
          /\ \A k \in 1..Len(calls) :
               calls[k].served # "" => calls'[k].served = calls[k].served
          /\ \A t \in Tasks :
               (task[t].pc = "service" /\ task'[t] # task[t]) =>
                   /\ \A k \in Range(Head(task[t].todo)) :
                         calls'[k].served \in {"ok", "failed"}
                   /\ task'[t].todo = Tail(task[t].todo)
         ]_vars
    /\ []( /\ \A d \in 1..Len(direct) :
               /\ direct[d].svc <= 1
               /\ direct[d].served \in {"ok", "failed"} =>
                     (direct[d].pc = "done" /\ direct[d].svc = 1)
           /\ \A t \in Tasks : task[t].pc = "service" =>
                 \A k \in Range(Head(task[t].todo)) : calls[k].served = "")

\* a translate call and the processor's call for a queued request have both
\* failed: each made one service call, and the processor is back at the top
\* of its loop
C32_Witness ==
    /\ \E d \in 1..Len(direct) :
          /\ direct[d].kind = "translate" /\ direct[d].served = "failed"
          /\ direct[d].svc = 1 /\ direct[d].pc = "done"
    /\ Len(calls) = 1 /\ calls[1].served = "failed" /\ calls[1].fut = "done"
    /\ \E t \in Tasks : task[t].pc = "idle"


C34_PartitionResolved ==
    [][\A t \in Tasks :
          (task[t].pc = "service" /\ task'[t] # task[t]) =>
              \A k \in Range(Head(task[t].todo)) : calls'[k].fut = "done"
      ]_vars


\* C35: put of a result whose fingerprint is already stored replaces that
\* entry's value and refreshes its access time without removing any other
\* entry, also when the cache is full.
C35_PutStoredKeyKeepsOthers ==
    [][(cache_op'.op = "put" /\ cache_op'.key \in Keys(cache)) =>
          /\ Keys(cache') = Keys(cache)
          /\ \A i \in 1..Len(cache) : \E j \in 1..Len(cache') :
                /\ cache'[j].key = cache[i].key
                /\ cache[i].key # cache_op'.key => cache'[j].value = cache[i].value
          /\ \A j, k \in 1..Len(cache') :
                (cache'[j].key = cache_op'.key /\ k # j)
                    => cache'[k].time < cache'[j].time
      ]_vars


\* C36: whatever translate, translate_batch, translate_queued, the processor
\* and stop() do, every result held by the cache has success = true; the step
\* in which a translate or translate_batch call fails leaves the cache as it
\* was, and a later call whose triple is not in the cache is not answered
\* from it: it goes on to acquire() and the service.
C36_FailureNeverCached ==
    /\ [][/\ \A d \in 1..Len(direct) :
               (direct[d].served # "failed" /\ direct'[d].served = "failed")
                   => cache' = cache
          /\ LET inv == direct'[Len(direct')]
             IN  (/\ Len(direct') = Len(direct) + 1
                  /\ \E i \in 1..Len(inv.texts) :
                        _generate_key(inv.texts[i], inv.target, inv.source)
                            \notin Keys(cache))
                 => (inv.served = "" /\ inv.pc \in {"acquire", "service"})
         ]_vars
    /\ []( \A i \in 1..Len(cache) :
               /\ cache[i].value.success
               /\ cache[i].value.error_message = NoneText )

\* translate("a") failed and the processor's call for a queued "a" failed;
\* the next translate("a") called the service again, and only its result is
\* in the cache
C36_Witness ==
    /\ Len(direct) = 2
    /\ direct[1].kind = "translate" /\ direct[1].served = "failed"
    /\ direct[2].kind = "translate" /\ direct[2].texts = direct[1].texts
    /\ direct[2].served = "ok" /\ direct[2].svc = 1
    /\ Len(calls) = 1 /\ calls[1].served = "failed"
    /\ Len(cache) = 1 /\ cache[1].value.success


\* C37: two translate calls for the same (text, source, target) that are in
\* progress together, the later one begun before the earlier one has stored
\* its result, have issued at most one service call between them.
C37_OverlappingShareOneCall ==
    \A d1, d2 \in 1..Len(direct) :
        (/\ d1 < d2
         /\ direct[d1].kind = "translate" /\ direct[d2].kind = "translate"
         /\ direct[d1].texts = direct[d2].texts
         /\ direct[d1].source = direct[d2].source
         /\ direct[d1].target = direct[d2].target
         /\ direct[d1].pc # "done" /\ direct[d2].pc # "done")
        => direct[d1].svc + direct[d2].svc <= 1


\* C38: for every triple, what get(text, target, source) finds in the cache
\* is a result of that triple: its source_text, source_language and
\* target_language are the requested ones, also when a field contains '|'.
C38_GetReturnsRequestedTriple ==
    \A text \in workload.texts, pair \in workload.pairs :
        LET at == CacheFind(cache, _generate_key(text, pair[1], pair[2]))
        IN  at # 0 =>
                /\ cache[at].value.source_text = text
                /\ cache[at].value.target_language = pair[1]
                /\ cache[at].value.source_language = pair[2]


\* C39: the file returned by translate_srt_file has one entry per input
\* entry, the i-th with the index, start_time and end_time of the i-th input
\* entry, and no step of any call changes the entries of its input file.
C39_EntriesKeepIndexAndTimes ==
    /\ [][\A d \in 1..Len(direct) : direct'[d].entries = direct[d].entries]_vars
    /\ []( \A d \in 1..Len(direct) :
              (direct[d].kind = "translate_srt_file" /\ direct[d].pc = "done") =>
                  /\ Len(direct[d].file) = Len(direct[d].entries)
                  /\ \A i \in 1..Len(direct[d].entries) :
                        /\ direct[d].file[i].index = direct[d].entries[i].index
                        /\ direct[d].file[i].start_time
                              = direct[d].entries[i].start_time
                        /\ direct[d].file[i].end_time
                              = direct[d].entries[i].end_time )

\* a file whose entries are numbered 3 and 1 came back translated, numbered
\* 3 and 1, while the input still holds the original lines
C39_Witness ==
    \E d \in 1..Len(direct) :
        /\ direct[d].kind = "translate_srt_file" /\ direct[d].pc = "done"
        /\ direct[d].served = "ok"
        /\ Len(direct[d].file) = 2
        /\ direct[d].file[1].index = 3 /\ direct[d].file[2].index = 1
        /\ direct[d].file[1].content # direct[d].entries[1].content
        /\ direct[d].entries[1].content = << "b" >>

====
